---- MODULE Spec2Model ----
(***************************************************************************)
(* Model of the marker-driven comment/uncomment transformer of             *)
(* src/src/processor.ts (computeTransformedTextWithConfig and its helpers).*)
(*                                                                         *)
(* A text is a sequence of characters (one-character strings); "\n" and    *)
(* "\r" are the line-feed and carriage-return characters.  Line numbers    *)
(* and character offsets are 0-based as in the source; TLA+ sequences are  *)
(* 1-based, so line number n of `lines' is lines[n + 1].                   *)
(***************************************************************************)
EXTENDS Integers, Sequences, FiniteSets, TLC

----------------------------------------------------------------------------
(* Program constants                                                       *)

DEBUG_TAG == <<"/", "/", "@", "d", "e", "b", "u", "g">>

UNDEBUG_TAG == <<"/", "/", "@", "u", "n", "d", "e", "b", "u", "g">>

DEFAULT_PROTECTED_FUNCTIONS ==
    << <<"d", "e", "s", "c", "r", "i", "b", "e">>,
       <<"b", "e", "f", "o", "r", "e">>,
       <<"b", "e", "f", "o", "r", "e", "E", "a", "c", "h">>,
       <<"t", "e", "s", "t">>,
       <<"i", "t">>,
       <<"a", "f", "t", "e", "r">>,
       <<"a", "f", "t", "e", "r", "E", "a", "c", "h">>,
       <<"s", "t", "e", "p">> >>

DEFAULT_FUNCTION_ALLOWLIST == << >>

LF == <<"\n">>

CRLF == <<"\r", "\n">>

----------------------------------------------------------------------------
(* String primitives of the host language, on character sequences          *)

\* JavaScript's \s / String.prototype.trim whitespace, as far as it occurs here.
IsSpace(c) == c \in {" ", "\t", "\r", "\n"}

Range(s) == {s[i] : i \in DOMAIN s}

\* s.slice(n): s without its first n characters.
Drop(s, n) == SubSeq(s, n + 1, Len(s))

\* s.startsWith(p)
StartsWith(s, p) == Len(p) <= Len(s) /\ SubSeq(s, 1, Len(p)) = p

\* Number of leading whitespace characters of s (the match of /^\s*/).
LeadingSpaceCount(s) ==
    IF \A i \in DOMAIN s : IsSpace(s[i])
    THEN Len(s)
    ELSE (CHOOSE i \in DOMAIN s :
              /\ ~IsSpace(s[i])
              /\ \A j \in 1..(i - 1) : IsSpace(s[j])) - 1

\* Number of trailing whitespace characters of s.
TrailingSpaceCount(s) ==
    IF \A i \in DOMAIN s : IsSpace(s[i])
    THEN Len(s)
    ELSE Len(s) - (CHOOSE i \in DOMAIN s :
                       /\ ~IsSpace(s[i])
                       /\ \A j \in (i + 1)..Len(s) : IsSpace(s[j]))

\* s.trim()
Trim(s) ==
    IF \A i \in DOMAIN s : IsSpace(s[i])
    THEN << >>
    ELSE SubSeq(s, LeadingSpaceCount(s) + 1, Len(s) - TrailingSpaceCount(s))

\* text.includes("\r\n")
IncludesCRLF(text) ==
    \E i \in 1..(Len(text) - 1) : text[i] = "\r" /\ text[i + 1] = "\n"

\* The 1-based indices of the "\n" characters of text, in ascending order.
RECURSIVE NewlinesFrom(_, _)
NewlinesFrom(text, from) ==
    IF \A p \in from..Len(text) : text[p] # "\n"
    THEN << >>
    ELSE LET p == CHOOSE p \in from..Len(text) :
                      text[p] = "\n" /\ \A q \in from..(p - 1) : text[q] # "\n"
         IN <<p>> \o NewlinesFrom(text, p + 1)

NewlineIndices(text) == NewlinesFrom(text, 1)

\* text.split(/\r?\n/): a line ends at each "\n"; one "\r" directly before it
\* belongs to the terminator.  The result always has at least one line.
LineBefore(text, first, nl) ==
    SubSeq(text, first,
           IF nl - 1 >= first /\ text[nl - 1] = "\r" THEN nl - 2 ELSE nl - 1)

SplitAt(text, nls) ==
    [k \in 1..(Len(nls) + 1) |->
        IF k = Len(nls) + 1
        THEN SubSeq(text, IF k = 1 THEN 1 ELSE nls[k - 1] + 1, Len(text))
        ELSE LineBefore(text, IF k = 1 THEN 1 ELSE nls[k - 1] + 1, nls[k])]

SplitLines(text) == SplitAt(text, NewlineIndices(text))

\* lines.join(eol)
RECURSIVE JoinFrom(_, _, _, _)
JoinFrom(lines, eol, i, acc) ==
    IF i > Len(lines)
    THEN acc
    ELSE JoinFrom(lines, eol, i + 1,
                  IF i = 1 THEN lines[1] ELSE acc \o eol \o lines[i])

Join(lines, eol) == JoinFrom(lines, eol, 1, << >>)

\* The line terminator the transformer assumes for the whole text.
DetectEol(text) == IF IncludesCRLF(text) THEN CRLF ELSE LF

----------------------------------------------------------------------------
(* Marker Locator                                                          *)

\* getLineStartOffsets: offsets[n + 1] is the offset computed for line n.
RECURSIVE OffsetsFrom(_, _, _, _, _)
OffsetsFrom(lines, eol, i, running, acc) ==
    IF i > Len(lines)
    THEN acc
    ELSE OffsetsFrom(lines, eol, i + 1,
                     running + Len(lines[i]) + Len(eol),
                     Append(acc, running))

getLineStartOffsets(lines, eol) == OffsetsFrom(lines, eol, 1, 0, << >>)

\* A plausible slip: a prefix test instead of equality of the trimmed line.
TagLinesPrefix(lines, tag) ==
    {i - 1 : i \in {j \in DOMAIN lines : StartsWith(Trim(lines[j]), tag)}}

\* The lines (0-based numbers) whose trimmed content is exactly `tag'.
TagLines(lines, tag) == {i - 1 : i \in {j \in DOMAIN lines : Trim(lines[j]) = tag}}

Min(S) == CHOOSE x \in S : \A y \in S : x <= y

NoMarker == [kind |-> "none", error |-> "", mode |-> "", markerLine |-> 0, markerOffset |-> 0]

MarkerError(e) == [kind |-> "error", error |-> e, mode |-> "", markerLine |-> 0, markerOffset |-> 0]

MarkerFound(mode, lineSet, offsets) ==
    [kind |-> "marker", error |-> "", mode |-> mode,
     markerLine |-> Min(lineSet), markerOffset |-> offsets[Min(lineSet) + 1]]

\* A plausible slip: the conflict check left out.
MarkerChecksNoConflict(debugLines, undebugLines, offsets) ==
    IF Cardinality(debugLines) > 1 THEN MarkerError("MultipleDebug")
    ELSE IF Cardinality(undebugLines) > 1 THEN MarkerError("MultipleUndebug")
    ELSE IF Cardinality(debugLines) = 0 /\ Cardinality(undebugLines) = 0
         THEN NoMarker
    ELSE IF Cardinality(debugLines) = 1
         THEN MarkerFound("debug", debugLines, offsets)
    ELSE MarkerFound("undebug", undebugLines, offsets)

\* A plausible slip: the conflict check placed before the multiplicity checks.
MarkerChecksConflictFirst(debugLines, undebugLines, offsets) ==
    IF Cardinality(debugLines) > 0 /\ Cardinality(undebugLines) > 0
    THEN MarkerError("ConflictingMarkers")
    ELSE IF Cardinality(debugLines) > 1 THEN MarkerError("MultipleDebug")
    ELSE IF Cardinality(undebugLines) > 1 THEN MarkerError("MultipleUndebug")
    ELSE IF Cardinality(debugLines) = 0 /\ Cardinality(undebugLines) = 0
         THEN NoMarker
    ELSE IF Cardinality(debugLines) = 1
         THEN MarkerFound("debug", debugLines, offsets)
    ELSE MarkerFound("undebug", undebugLines, offsets)

\* The checks of getMarkerInfo, in the order of the source.
MarkerChecks(debugLines, undebugLines, offsets) ==
    IF Cardinality(debugLines) > 1 THEN MarkerError("MultipleDebug")
    ELSE IF Cardinality(undebugLines) > 1 THEN MarkerError("MultipleUndebug")
    ELSE IF Cardinality(debugLines) > 0 /\ Cardinality(undebugLines) > 0
         THEN MarkerError("ConflictingMarkers")
    ELSE IF Cardinality(debugLines) = 0 /\ Cardinality(undebugLines) = 0
         THEN NoMarker
    ELSE IF Cardinality(debugLines) = 1
         THEN MarkerFound("debug", debugLines, offsets)
    ELSE MarkerFound("undebug", undebugLines, offsets)

MarkerInfoOf(lines, eol) ==
    MarkerChecks(TagLines(lines, DEBUG_TAG), TagLines(lines, UNDEBUG_TAG),
                 getLineStartOffsets(lines, eol))

getMarkerInfo(text) == MarkerInfoOf(SplitLines(text), DetectEol(text))

----------------------------------------------------------------------------
(* Configuration                                                           *)

\* A Partial<ProcessorConfig>: hasPF / hasAL say whether the field is supplied.
\* values.map((value) => value.trim()).filter((value) => value.length > 0)
TrimmedNonEmpty(values) ==
    LET RECURSIVE F(_, _)
        F(i, acc) == IF i > Len(values) THEN acc
                     ELSE F(i + 1, IF Len(Trim(values[i])) > 0
                                   THEN Append(acc, Trim(values[i]))
                                   ELSE acc)
    IN F(1, << >>)

\* A plausible slip: the supplied protectedFunctions ignored, defaults always used.
normalizeConfigDefaultsOnly(config) ==
    [protectedFunctions |-> TrimmedNonEmpty(DEFAULT_PROTECTED_FUNCTIONS),
     functionAllowlist |-> TrimmedNonEmpty(DEFAULT_FUNCTION_ALLOWLIST)]

normalizeConfig(config) ==
    [protectedFunctions |->
         TrimmedNonEmpty(IF config.hasPF THEN config.protectedFunctions
                         ELSE DEFAULT_PROTECTED_FUNCTIONS),
     functionAllowlist |->
         TrimmedNonEmpty(IF config.hasAL THEN config.functionAllowlist
                         ELSE DEFAULT_FUNCTION_ALLOWLIST)]

\* The pattern built by getProtectedCallLinePattern, applied to one line:
\*   ^\s*(?:\/\/+\s*)?(?:await\s+)?(?:name1|name2|...)\s*\(
\* escapeRegex makes every name match literally.  With no name the pattern is
\* undefined and nothing matches.
SkipSpaces(s) == Drop(s, LeadingSpaceCount(s))

SlashCount(s) ==
    IF \A i \in DOMAIN s : s[i] = "/"
    THEN Len(s)
    ELSE (CHOOSE i \in DOMAIN s : s[i] # "/" /\ \A j \in 1..(i - 1) : s[j] = "/") - 1

AWAIT == <<"a", "w", "a", "i", "t">>

NameThenParen(s, names) ==
    \E k \in DOMAIN names :
        /\ StartsWith(s, names[k])
        /\ LET rest == SkipSpaces(Drop(s, Len(names[k])))
           IN Len(rest) > 0 /\ rest[1] = "("

AfterAwait(s, names) ==
    \/ NameThenParen(s, names)
    \/ /\ StartsWith(s, AWAIT)
       /\ LeadingSpaceCount(Drop(s, Len(AWAIT))) >= 1
       /\ NameThenParen(SkipSpaces(Drop(s, Len(AWAIT))), names)

\* A plausible slip: the optional comment prefix left out of the pattern.
PatternTestNoCommentPrefix(names, line) ==
    /\ Len(names) > 0
    /\ AfterAwait(SkipSpaces(line), names)

PatternTest(names, line) ==
    /\ Len(names) > 0
    /\ LET s == SkipSpaces(line)
       IN \/ AfterAwait(s, names)
          \/ /\ SlashCount(s) >= 2
             /\ AfterAwait(SkipSpaces(Drop(s, SlashCount(s))), names)

\* stripFirstCommentPrefixPerLine: line.replace(/^(\s*)\/\//, "$1") on every
\* line, the lines joined by "\n" whatever the terminator of the text was.
StripLine(line) ==
    LET n == LeadingSpaceCount(line)
    IN IF StartsWith(Drop(line, n), <<"/", "/">>)
       THEN SubSeq(line, 1, n) \o Drop(line, n + 2)
       ELSE line

StripLines(lines) == [i \in DOMAIN lines |-> StripLine(lines[i])]

stripFirstCommentPrefixPerLine(text) == Join(StripLines(SplitLines(text)), LF)

----------------------------------------------------------------------------
(* The syntax tree                                                         *)
(*                                                                         *)
(* project.createSourceFile(parseText) on the fragment of TypeScript the   *)
(* texts of this model are written in.  After its indentation a line is    *)
(*     (nothing)        blank                                              *)
(*     //...            a comment (trivia)                                 *)
(*     @name            a decorator (what `//@undebug' is once its `//' is *)
(*                      stripped); it attaches to a declaration that       *)
(*                      follows, else it is a missing declaration          *)
(*     name(()=>{       a call whose arrow-function argument opens a block *)
(*     })               closes the innermost open block and its call; with *)
(*                      no block open the two tokens are skipped           *)
(*     name()           a call statement without callback                  *)
(*     var a=1          a variable statement, initializer not a call       *)
(*     var a=name()     a variable statement, initializer a call           *)
(* A block left open at the end of the text ends with the last token.      *)
(* A node's range is [pos, end): pos is the end of the token before it     *)
(* (its leading trivia belongs to it), end the end of its last token.      *)

IsIdentChar(c) ==
    c \in {"a", "b", "c", "d", "e", "f", "g", "h", "i", "j", "k", "l", "m",
           "n", "o", "p", "q", "r", "s", "t", "u", "v", "w", "x", "y", "z",
           "A", "B", "C", "D", "E", "F", "G", "H", "I", "J", "K", "L", "M",
           "N", "O", "P", "Q", "R", "S", "T", "U", "V", "W", "X", "Y", "Z"}

IdentLen(s) ==
    IF \A i \in DOMAIN s : IsIdentChar(s[i])
    THEN Len(s)
    ELSE (CHOOSE i \in DOMAIN s :
              ~IsIdentChar(s[i]) /\ \A j \in 1..(i - 1) : IsIdentChar(s[j])) - 1

IdentPrefix(s) == SubSeq(s, 1, IdentLen(s))

IndexOf(s, c) == CHOOSE i \in DOMAIN s : s[i] = c /\ \A j \in 1..(i - 1) : s[j] # c

VAR_KW == <<"v", "a", "r", " ">>

ARROW_OPEN == <<"(", "(", ")", "=", ">", "{">>

NoName == << >>

\* What one line of the parse text contributes to the tree.
\*   indent: its leading whitespace; width: its length without trailing
\*   whitespace; name: the callee (for var: the initializer's callee, NoName
\*   when the initializer is not a call); brace: the column of its `{'.
LineBase(indent, width) ==
    [kind |-> "other", name |-> NoName, indent |-> indent, width |-> width,
     brace |-> 0, inits |-> << >>]

\* What getCallName finds in one initializer: the name it resolves (NoName
\* when the initializer is no call) and whether the callee is an identifier.
NoCallInit == [name |-> NoName, bare |-> FALSE]

\* target.getName() of object.member(...)
MemberCallee(member, rest) ==
    IF Len(member) > 0 /\ StartsWith(rest, <<"(">>)
    THEN [name |-> member, bare |-> FALSE]
    ELSE NoCallInit

\* target.getText() of name(...), else the property access
CalleeOf(callee, rest) ==
    IF Len(callee) = 0 THEN NoCallInit
    ELSE IF StartsWith(rest, <<"(">>) THEN [name |-> callee, bare |-> TRUE]
    ELSE IF StartsWith(rest, <<".">>)
         THEN MemberCallee(IdentPrefix(Drop(rest, 1)),
                           Drop(rest, 1 + IdentLen(Drop(rest, 1))))
         ELSE NoCallInit

\* unwrapExpression: an await in front of the call is looked through.
Unwrapped(init) ==
    IF StartsWith(init, AWAIT \o <<" ">>) THEN SkipSpaces(Drop(init, Len(AWAIT))) ELSE init

InitializerCallee(init) == CalleeOf(IdentPrefix(init), Drop(init, IdentLen(init)))

\* declaration.getInitializer() of `name=init', none without `='.
Initializer(d) == IF "=" \in Range(d) THEN Drop(d, IndexOf(d, "=")) ELSE << >>

DeclarationInit(d) == InitializerCallee(Unwrapped(Initializer(d)))

\* node.getDeclarations(): the declarations after the keyword, split at the
\* comma (the initializers of the texts have no comma of their own).
Declarations(r) ==
    IF "," \in Range(r)
    THEN <<SubSeq(r, 1, IndexOf(r, ",") - 1), Drop(r, IndexOf(r, ","))>>
    ELSE <<r>>

DeclarationInits(ds) == [k \in DOMAIN ds |-> DeclarationInit(ds[k])]

VarLine(base, r) ==
    [base EXCEPT !.kind = "var",
                 !.inits = DeclarationInits(Declarations(Drop(r, Len(VAR_KW))))]

\* object.member(()=>{ : a call with a callback body whose callee is a
\* property access, not an identifier; it has no name a set can hold.
MemberCallLine(base, calleeLen, rest) ==
    IF calleeLen > 0 /\ IdentLen(rest) > 0
       /\ StartsWith(Drop(rest, IdentLen(rest)), ARROW_OPEN)
    THEN [base EXCEPT !.kind = "open", !.name = NoName,
                      !.brace = base.indent + calleeLen + 1 + IdentLen(rest)
                                + Len(ARROW_OPEN) - 1]
    ELSE base

CallLine(base, callee, rest) ==
    IF Len(callee) > 0 /\ StartsWith(rest, ARROW_OPEN)
    THEN [base EXCEPT !.kind = "open", !.name = callee,
                      !.brace = base.indent + Len(callee) + Len(ARROW_OPEN) - 1]
    ELSE IF Len(callee) > 0 /\ rest = <<"(">>
    THEN [base EXCEPT !.kind = "head", !.name = callee]
    ELSE IF Len(callee) > 0 /\ StartsWith(rest, <<"(">>)
         THEN [base EXCEPT !.kind = "call", !.name = callee]
         ELSE IF StartsWith(rest, <<".">>)
              THEN MemberCallLine(base, Len(callee), Drop(rest, 1))
              ELSE base

\* ()=>{ on a line of its own: the callback argument of a call whose
\* signature spans several lines.
ARROW_BLOCK == <<"(", ")", "=", ">", "{">>

\* r is the line without its leading and trailing whitespace.
\*   head: name( with its arguments on the lines below; arrow: a callback
\*   argument opening its block; rbrace: } ending a block; rparen: ) ending
\*   an argument list.
Classify(base, r) ==
    IF Len(r) = 0 THEN [base EXCEPT !.kind = "blank"]
    ELSE IF StartsWith(r, <<"/", "/">>) THEN [base EXCEPT !.kind = "comment"]
    ELSE IF r[1] = "@" THEN [base EXCEPT !.kind = "deco"]
    ELSE IF StartsWith(r, <<"}", ")">>) THEN [base EXCEPT !.kind = "close"]
    ELSE IF r = ARROW_BLOCK
         THEN [base EXCEPT !.kind = "arrow",
                           !.brace = base.indent + Len(ARROW_BLOCK) - 1]
    ELSE IF r = <<"}">> THEN [base EXCEPT !.kind = "rbrace"]
    ELSE IF r = <<")">> THEN [base EXCEPT !.kind = "rparen"]
    ELSE IF StartsWith(r, VAR_KW) THEN VarLine(base, r)
    ELSE CallLine(base, IdentPrefix(r), Drop(r, IdentLen(r)))

LineWidth(line, indent) ==
    Len(line) - (IF indent = Len(line) THEN 0 ELSE TrailingSpaceCount(line))

LineInfoAt(line, indent, width) ==
    Classify(LineBase(indent, width), SubSeq(line, indent + 1, width))

LineInfo(line) ==
    LineInfoAt(line, LeadingSpaceCount(line),
               LineWidth(line, LeadingSpaceCount(line)))

\* The 0-based offset at which each line of `text' starts (the tree's own
\* line map: a line starts after each "\n").
StartsAt(nls) == [k \in 1..(Len(nls) + 1) |-> IF k = 1 THEN 0 ELSE nls[k - 1]]

LineStarts(text) == StartsAt(NewlineIndices(text))

\* A call expression of the tree.  Lines are 0-based (getStartLineNumber() - 1
\* and getEndLineNumber() - 1); blockPos/blockEnd are the [pos, end) range of
\* the callback body block.  Without a block body the body fields are -1.
CallNode(name, startLine, endLine, hasBody, bodyStartLine, bodyEndLine, blockPos, blockEnd) ==
    [name |-> name, startLine |-> startLine, endLine |-> endLine,
     hasBody |-> hasBody, bodyStartLine |-> bodyStartLine,
     bodyEndLine |-> bodyEndLine, blockPos |-> blockPos, blockEnd |-> blockEnd]

\* A variable statement: inits[k] is what getCallName finds in the
\* initializer of its k-th declaration.
VarNode(startLine, endLine, inits) ==
    [startLine |-> startLine, endLine |-> endLine, inits |-> inits]

\* The call expressions among the initializers of a declaration line.
InitializerCalls(inits, n) ==
    {CallNode(IF inits[k].bare THEN inits[k].name ELSE NoName,
              n, n, FALSE, -1, -1, -1, -1) :
        k \in {j \in DOMAIN inits : inits[j].name # NoName}}

\* The state of the parse between two lines:
\*   st.open: the calls whose block is still open, innermost last
\*   st.calls, st.vars: the finished nodes
\*   st.deco: the line of the first pending decorator, -1 when none
\*   st.lastLine, st.lastEnd: line and end offset of the last token so far
ParseStart ==
    [open |-> << >>, calls |-> {}, vars |-> {}, deco |-> -1, lastLine |-> -1,
     lastEnd |-> 0]

\* After a line with tokens: the last token is on line n, a pending
\* decorator is consumed.
Tok(st, li, n, off) ==
    [st EXCEPT !.lastLine = n, !.lastEnd = off + li.width, !.deco = -1]

\* The call ends on line n; a block still open ends there too, at offset end.
Closed(c, n, end) ==
    [c EXCEPT !.endLine = n,
              !.bodyEndLine = IF c.hasBody /\ @ = -1 THEN n ELSE @,
              !.blockEnd = IF c.hasBody /\ @ = -1 THEN end ELSE @]

\* The innermost open call, NoOpenCall when none is open.
NoOpenCall == [hasBody |-> FALSE, bodyEndLine |-> 0, endLine |-> 0]

InnermostOpen(open) == IF Len(open) = 0 THEN NoOpenCall ELSE open[Len(open)]

\* Its argument list is open and holds no callback yet.
AwaitsCallback(c) == ~c.hasBody /\ c.endLine = -1

\* Its callback body is open.
InBody(c) == c.hasBody /\ c.bodyEndLine = -1

WithInnermost(open, c) == [open EXCEPT ![Len(open)] = c]

\* Line n (0-based, starting at offset off, described by li) added to st.
ParseLine(st, li, n, off) ==
    CASE li.kind \in {"blank", "comment"} -> st
      [] li.kind = "deco" ->
           [Tok(st, li, n, off) EXCEPT !.deco = IF st.deco >= 0 THEN st.deco ELSE n]
      [] li.kind = "open" ->
           [Tok(st, li, n, off) EXCEPT
              !.open = Append(st.open,
                              CallNode(li.name, n, -1, TRUE, n, -1, off + li.brace, -1))]
      [] li.kind = "close" ->
           IF Len(st.open) = 0
           THEN [st EXCEPT !.deco = -1]
           ELSE [Tok(st, li, n, off) EXCEPT
                   !.open = SubSeq(st.open, 1, Len(st.open) - 1),
                   !.calls = st.calls \cup
                       {Closed(st.open[Len(st.open)], n, off + li.indent + 1)}]
      [] li.kind = "head" ->
           [Tok(st, li, n, off) EXCEPT
              !.open = Append(st.open,
                              CallNode(li.name, n, -1, FALSE, -1, -1, -1, -1))]
      [] li.kind = "arrow" ->
           IF AwaitsCallback(InnermostOpen(st.open))
           THEN [Tok(st, li, n, off) EXCEPT
                   !.open = WithInnermost(st.open,
                       [InnermostOpen(st.open) EXCEPT
                           !.hasBody = TRUE, !.bodyStartLine = n,
                           !.blockPos = off + li.brace])]
           ELSE Tok(st, li, n, off)
      [] li.kind = "rbrace" ->
           IF InBody(InnermostOpen(st.open))
           THEN [Tok(st, li, n, off) EXCEPT
                   !.open = WithInnermost(st.open,
                       [InnermostOpen(st.open) EXCEPT
                           !.bodyEndLine = n, !.blockEnd = off + li.indent + 1])]
           ELSE Tok(st, li, n, off)
      [] li.kind = "rparen" ->
           IF Len(st.open) > 0 /\ ~InBody(InnermostOpen(st.open))
           THEN [Tok(st, li, n, off) EXCEPT
                   !.open = SubSeq(st.open, 1, Len(st.open) - 1),
                   !.calls = st.calls \cup
                       {Closed(InnermostOpen(st.open), n, off + li.width)}]
           ELSE Tok(st, li, n, off)
      [] li.kind = "call" ->
           [Tok(st, li, n, off) EXCEPT
              !.calls = st.calls \cup {CallNode(li.name, n, n, FALSE, -1, -1, -1, -1)}]
      [] li.kind = "var" ->
           [Tok(st, li, n, off) EXCEPT
              !.vars = st.vars \cup
                  {VarNode(IF st.deco >= 0 THEN st.deco ELSE n, n, li.inits)},
              !.calls = st.calls \cup InitializerCalls(li.inits, n)]
      [] OTHER -> Tok(st, li, n, off)

RECURSIVE ParseFrom(_, _, _, _)
ParseFrom(plines, starts, i, st) ==
    IF i > Len(plines)
    THEN st
    ELSE ParseFrom(plines, starts, i + 1,
                   ParseLine(st, LineInfo(plines[i]), i - 1, starts[i]))

\* The end of the text: a block still open ends with the last token.
SourceFileOf(st, length) ==
    [calls |-> st.calls \cup
               {Closed(st.open[k], st.lastLine, st.lastEnd) : k \in DOMAIN st.open},
     vars |-> st.vars,
     length |-> length]

\* The source file: its call expressions, variable statements and length.
createSourceFile(parseText) ==
    SourceFileOf(ParseFrom(SplitLines(parseText), LineStarts(parseText), 1, ParseStart),
                 Len(parseText))

----------------------------------------------------------------------------
(* Structural Classifier                                                   *)

\* addProtectedRange
LineRange(start, end) == start..end

\* The call expressions whose callee is a bare identifier of the protected set.
getProtectedCallInfos(sourceFile, protectedFunctions) ==
    {c \in sourceFile.calls : c.name \in protectedFunctions}

\* A plausible slip: every variable statement protected, whatever it calls.
shouldProtectVariableStatementAlways(node, functionAllowlist) == TRUE

\* A plausible slip: the allowlist read the other way round, a statement
\* left unprotected exactly when every initializer is an allowlisted call.
shouldProtectVariableStatementInverted(node, functionAllowlist) ==
    ~(\A k \in DOMAIN node.inits :
          node.inits[k].name # NoName /\ node.inits[k].name \in functionAllowlist)

\* The loop over the declarations: false at the first initializer that is a
\* call of a name outside the allowlist, true when there is none.
shouldProtectVariableStatement(node, functionAllowlist) ==
    \A k \in DOMAIN node.inits :
        \/ node.inits[k].name = NoName
        \/ node.inits[k].name \in functionAllowlist

\* A plausible slip: only the line of the call's first token protected.
CallProtectedLinesHeadOnly(c) == {c.startLine}

\* The lines one protected call contributes: its whole span without a block
\* body, else header through body opening and body closing through call end.
CallProtectedLines(c) ==
    IF ~c.hasBody
    THEN LineRange(c.startLine, c.endLine)
    ELSE LineRange(c.startLine, c.bodyStartLine) \cup LineRange(c.bodyEndLine, c.endLine)

getProtectedLines(sourceFile, protectedFunctions, functionAllowlist) ==
    UNION {CallProtectedLines(c) : c \in getProtectedCallInfos(sourceFile, protectedFunctions)}
    \cup
    UNION {LineRange(v.startLine, v.endLine) :
              v \in {w \in sourceFile.vars :
                        shouldProtectVariableStatement(w, functionAllowlist)}}

getRegexProtectedLines(lines, names) ==
    {i - 1 : i \in {j \in DOMAIN lines : PatternTest(names, lines[j])}}

----------------------------------------------------------------------------
(* Scope Resolver                                                          *)

Max(S) == CHOOSE x \in S : \A y \in S : x >= y

\* The verdict for the call found at the nearest pattern line.
AmbiguityOfCall(info, markerLine) ==
    IF info.endLine < markerLine THEN FALSE
    ELSE IF ~info.hasBody THEN TRUE
    ELSE ~(markerLine > info.bodyStartLine /\ markerLine < info.bodyEndLine)

\* callInfos.find((info) => info.startLine === i): none is ambiguous.
AmbiguityOfMatch(matching, markerLine) ==
    IF matching = {} THEN TRUE
    ELSE AmbiguityOfCall(CHOOSE m \in matching : TRUE, markerLine)

\* A plausible slip: the loop run from the top of the file, deciding at the
\* pattern line farthest from the marker.
AmbiguityOfHitsFarthest(hits, markerLine, callInfos) ==
    IF hits = {} THEN FALSE
    ELSE AmbiguityOfMatch({info \in callInfos :
                              \A h \in hits : info.startLine <= h /\ info.startLine \in hits},
                          markerLine)

\* hits: the lines above the marker that match the pattern; the loop runs
\* downwards from the marker and decides at the first one it meets.
AmbiguityOfHits(hits, markerLine, callInfos) ==
    IF hits = {} THEN FALSE
    ELSE AmbiguityOfMatch({info \in callInfos : info.startLine = Max(hits)}, markerLine)

hasAmbiguousInnerProtectedCallBeforeMarker(lines, markerLine, callInfos, names) ==
    AmbiguityOfHits({i \in 0..(markerLine - 1) : PatternTest(names, lines[i + 1])},
                    markerLine, callInfos)

Undefined == 0 - 1

\* sourceFile.getDescendantAtPos(pos) ?? getDescendantAtPos(max(pos - 1, 0)):
\* the position actually looked up, Undefined when both lie outside the file.
LookupPos(sourceFile, pos) ==
    IF pos < sourceFile.length THEN pos
    ELSE IF pos - 1 >= 0 /\ pos - 1 < sourceFile.length THEN pos - 1
    ELSE Undefined

\* The protected callback body blocks among the ancestors of the node at pos.
candidateBlocks(sourceFile, pos, protectedFunctions) ==
    {c \in sourceFile.calls :
        /\ c.hasBody
        /\ c.name \in protectedFunctions
        /\ c.blockPos <= pos
        /\ pos < c.blockEnd}

\* A plausible slip: the farthest protected ancestor instead of the nearest.
NearestBlockOutermost(blocks) ==
    CHOOSE b \in blocks : \A o \in blocks : b.blockPos <= o.blockPos

\* getAncestors() is ordered nearest first: the innermost block.
NearestBlock(blocks) ==
    CHOOSE b \in blocks : \A o \in blocks : b.blockPos >= o.blockPos

\* A plausible slip: without a protected ancestor the window starts with the
\* file instead of the transform giving up.
StartLineOfOrFileStart(blocks) ==
    IF blocks = {} THEN 0 ELSE NearestBlock(blocks).bodyStartLine + 1

\* getStartLineNumber() is 1-based and is returned as is.
StartLineOf(blocks) ==
    IF blocks = {} THEN Undefined ELSE NearestBlock(blocks).bodyStartLine + 1

BlocksAt(sourceFile, pos, protectedFunctions) ==
    IF pos = Undefined THEN {} ELSE candidateBlocks(sourceFile, pos, protectedFunctions)

getProcessingStartLine(sourceFile, markerOffset, protectedFunctions) ==
    StartLineOf(BlocksAt(sourceFile, LookupPos(sourceFile, markerOffset),
                         protectedFunctions))

----------------------------------------------------------------------------
(* Line Rewriter and the transform                                         *)

SLASHES == <<"/", "/">>

\* A plausible slip: a space inserted after the two slashes.
DebugLineWithSpace(originalLine) ==
    LET n == LeadingSpaceCount(originalLine)
    IN SubSeq(originalLine, 1, n) \o SLASHES \o <<" ">> \o Drop(originalLine, n)

\* `${leadingWhitespace}//${lineWithoutIndent}`
DebugLine(originalLine) ==
    LET n == LeadingSpaceCount(originalLine)
    IN SubSeq(originalLine, 1, n) \o SLASHES \o Drop(originalLine, n)

\* A plausible slip: every leading slash removed, not only the first two.
UndebugLineAllSlashes(originalLine) ==
    LET n == LeadingSpaceCount(originalLine)
        rest == Drop(originalLine, n)
    IN SubSeq(originalLine, 1, n) \o Drop(rest, SlashCount(rest))

\* A plausible slip: one slash removed, not two.
UndebugLineOneSlash(originalLine) ==
    LET n == LeadingSpaceCount(originalLine)
        rest == Drop(originalLine, n)
    IN IF StartsWith(rest, SLASHES)
       THEN SubSeq(originalLine, 1, n) \o Drop(rest, 1)
       ELSE originalLine

\* originalLine.match(/^(\s*)\/\/(.*)$/): `.' matches no line terminator, so
\* a line with one after the slashes does not match and is kept.
UndebugLine(originalLine) ==
    LET n == LeadingSpaceCount(originalLine)
        rest == Drop(originalLine, n)
    IN IF StartsWith(rest, SLASHES)
          /\ \A i \in DOMAIN rest : rest[i] \notin {"\r", "\n"}
       THEN SubSeq(originalLine, 1, n) \o Drop(rest, 2)
       ELSE originalLine

\* A plausible slip: the marker line included in the loop.
InWindowInclusive(lineIndex, processingStartLine, markerLine) ==
    processingStartLine <= lineIndex /\ lineIndex <= markerLine

\* for (lineIndex = processingStartLine; lineIndex < markerLine; lineIndex += 1)
InWindow(lineIndex, processingStartLine, markerLine) ==
    processingStartLine <= lineIndex /\ lineIndex < markerLine

\* A plausible slip: the protected-line test dropped from the loop.
SkipsLineBlankOnly(originalLine, isProtected) ==
    Len(originalLine) = 0 \/ Len(Trim(originalLine)) = 0

\* The two `continue's at the head of the loop body.
SkipsLine(originalLine, isProtected) ==
    \/ isProtected
    \/ Len(originalLine) = 0
    \/ Len(Trim(originalLine)) = 0

\* A plausible slip: the result always joined with "\n".
OutputEolAlwaysLF(text) == LF

\* const eol = text.includes("\r\n") ? "\r\n" : "\n" before the final join.
OutputEol(text) == DetectEol(text)

\* Everything computeTransformedTextWithConfig derives from a text that has
\* exactly one marker, before it rewrites any line.
AnalysisRecord(markerInfo, names, protectedFunctions, functionAllowlist, lines, parseText, sourceFile) ==
    [markerInfo |-> markerInfo,
     lines |-> lines,
     parseText |-> parseText,
     sourceFile |-> sourceFile,
     protectedFunctions |-> protectedFunctions,
     ambiguous |->
         hasAmbiguousInnerProtectedCallBeforeMarker(
             lines, markerInfo.markerLine,
             getProtectedCallInfos(sourceFile, protectedFunctions), names),
     protectedLines |->
         getProtectedLines(sourceFile, protectedFunctions, functionAllowlist)
         \cup getRegexProtectedLines(lines, names),
     processingStartLine |->
         getProcessingStartLine(sourceFile, markerInfo.markerOffset, protectedFunctions)]

AnalysisParsed(markerInfo, normalizedConfig, lines, parseText) ==
    AnalysisRecord(markerInfo,
                   normalizedConfig.protectedFunctions,
                   Range(normalizedConfig.protectedFunctions),
                   Range(normalizedConfig.functionAllowlist),
                   lines, parseText, createSourceFile(parseText))

\* const parseText = markerInfo.mode === "undebug" ? strip...(text) : text
ParseTextOf(text, mode) ==
    IF mode = "undebug" THEN stripFirstCommentPrefixPerLine(text) ELSE text

AnalysisOf(text, markerInfo, normalizedConfig) ==
    AnalysisParsed(markerInfo, normalizedConfig, SplitLines(text),
                   ParseTextOf(text, markerInfo.mode))

Analysis(text, config) == AnalysisOf(text, getMarkerInfo(text), normalizeConfig(config))

\* The loop over the window: every iteration reads and writes its own line only.
RewriteLines(a) ==
    [i \in DOMAIN a.lines |->
        IF /\ InWindow(i - 1, a.processingStartLine, a.markerInfo.markerLine)
           /\ ~SkipsLine(a.lines[i], (i - 1) \in a.protectedLines)
        THEN IF a.markerInfo.mode = "debug"
             THEN DebugLine(a.lines[i])
             ELSE UndebugLine(a.lines[i])
        ELSE a.lines[i]]

Returned(text) == [kind |-> "text", text |-> text, error |-> ""]

Thrown(error) == [kind |-> "error", text |-> << >>, error |-> error]

\* The locals of computeTransformedTextWithConfig when it returns or throws:
\* without exactly one marker it stops before it derives anything else.
LocalsOf(text, config, markerInfo) ==
    IF markerInfo.kind = "marker"
    THEN AnalysisOf(text, markerInfo, normalizeConfig(config))
    ELSE [markerInfo |-> markerInfo, lines |-> SplitLines(text)]

CallLocals(text, config) == LocalsOf(text, config, getMarkerInfo(text))

\* What the call returns or throws, given its locals.
ResultOf(text, a) ==
    IF a.markerInfo.kind = "error" THEN Thrown(a.markerInfo.error)
    ELSE IF a.markerInfo.kind = "none" THEN Returned(text)
    ELSE IF a.ambiguous THEN Returned(text)
    ELSE IF a.processingStartLine = Undefined THEN Returned(text)
    ELSE Returned(Join(RewriteLines(a), OutputEol(text)))

computeTransformedTextWithConfig(text, config) ==
    ResultOf(text, CallLocals(text, config))

----------------------------------------------------------------------------
(* Texts and configurations the transformer is run on                      *)

L_OPEN == <<"i", "t", "(", "(", ")", "=", ">", "{">>

L_OPEN_F == <<"f", "(", "(", ")", "=", ">", "{">>

NAME_DESCRIBE == <<"d", "e", "s", "c", "r", "i", "b", "e">>

NAME_BEFORE == <<"b", "e", "f", "o", "r", "e">>

NAME_BEFORE_EACH == NAME_BEFORE \o <<"E", "a", "c", "h">>

NAME_IT == <<"i", "t">>

NAME_TEST == <<"t", "e", "s", "t">>

HOOK_NAMES == {NAME_BEFORE, NAME_BEFORE_EACH, NAME_IT}

\* Openers of the callbacks of logic.test.ts: describe(()=>{ and the like.
OpenerOf(name) == name \o ARROW_OPEN

L_DESCRIBE == OpenerOf(NAME_DESCRIBE)

L_BEFORE == OpenerOf(NAME_BEFORE)

L_BEFORE_EACH == OpenerOf(NAME_BEFORE_EACH)

\* describe.only(()=>{
L_DESCRIBE_ONLY == NAME_DESCRIBE \o <<".", "o", "n", "l", "y">> \o ARROW_OPEN

L_TEST == OpenerOf(NAME_TEST)

L_CLOSE == <<"}", ")">>

\* A call of a default name whose signature spans several lines:
\* it( / ()=>{ / ... / } / )
L_HEAD == <<"i", "t", "(">>

L_ARROW == ARROW_BLOCK

L_RBRACE == <<"}">>

L_RPAREN == <<")">>

L_STMT == <<"x", "(", ")">>

L_VAR == <<"v", "a", "r", " ", "a", "=", "1">>

L_VAR_CALL == <<"v", "a", "r", " ", "a", "=", "g", "(", ")">>

\* awaited direct call: var a=await g()
L_VAR_AWAIT == <<"v", "a", "r", " ", "a", "=", "a", "w", "a", "i", "t", " ", "g", "(", ")">>

\* static/member call: var a=S.g()
L_VAR_STATIC == <<"v", "a", "r", " ", "a", "=", "S", ".", "g", "(", ")">>

\* awaited instance call: var a=await w.g()
L_VAR_INSTANCE == <<"v", "a", "r", " ", "a", "=", "a", "w", "a", "i", "t", " ", "w", ".", "g", "(", ")">>

\* a new expression is no call: var a=new S()
L_VAR_NEW == <<"v", "a", "r", " ", "a", "=", "n", "e", "w", " ", "S", "(", ")">>

\* a call of another name: var a=await h()
L_VAR_OTHER == <<"v", "a", "r", " ", "a", "=", "a", "w", "a", "i", "t", " ", "h", "(", ")">>

\* a member call of another name: var a=S.h()
L_VAR_OTHER_MEMBER == <<"v", "a", "r", " ", "a", "=", "S", ".", "h", "(", ")">>

\* a call of a protected function: var a=it()
L_VAR_PROTECTED == <<"v", "a", "r", " ", "a", "=", "i", "t", "(", ")">>

\* two declarations, the second a call: var a=1,b=h()
L_VAR_TWO == <<"v", "a", "r", " ", "a", "=", "1", ",", "b", "=", "h", "(", ")">>

\* two declarations, the first a call: var a=g(),b=1
L_VAR_TWO_ALLOWED == <<"v", "a", "r", " ", "a", "=", "g", "(", ")", ",", "b", "=", "1">>

\* two declarations, both calls: var a=g(),b=h()
L_VAR_TWO_CALLS == <<"v", "a", "r", " ", "a", "=", "g", "(", ")", ",", "b", "=", "h", "(", ")">>

L_BLANK == << >>

\* A marker-like comment that is no marker: the tag with trailing content.
L_NEAR_DEBUG == DEBUG_TAG \o <<"x">>

Indented(line) == <<" ">> \o line

Commented(line) == SLASHES \o line

NAME_G == <<"g">>

\* undefined, a supplied protected-function list (entries are trimmed and the
\* empty one is dropped), a supplied allowlist.
Configs ==
    {[hasPF |-> FALSE, protectedFunctions |-> << >>,
      hasAL |-> FALSE, functionAllowlist |-> << >>],
     [hasPF |-> TRUE, protectedFunctions |-> << <<" ", "f", " ">>, <<" ">> >>,
      hasAL |-> FALSE, functionAllowlist |-> << >>],
     [hasPF |-> FALSE, protectedFunctions |-> << >>,
      hasAL |-> TRUE, functionAllowlist |-> <<NAME_G>>]}

Eols == {LF, CRLF}

\* All sequences over S of length at most n.
RECURSIVE SeqsUpTo(_, _)
SeqsUpTo(S, n) ==
    IF n = 0 THEN {<< >>}
    ELSE LET shorter == SeqsUpTo(S, n - 1)
         IN shorter \cup {Append(q, x) : q \in {r \in shorter : Len(r) = n - 1}, x \in S}

----------------------------------------------------------------------------
(* The extension with the operation gate (lastOperationMap): its markers,  *)
(* scopes and edits                                                        *)

\* The markers of that extension carry a space: '// @debug', '// @undebug'.
GATE_DEBUG_TAG == <<"/", "/", " ", "@", "d", "e", "b", "u", "g">>

GATE_UNDEBUG_TAG == <<"/", "/", " ", "@", "u", "n", "d", "e", "b", "u", "g">>

AWAIT_STEP == <<"a", "w", "a", "i", "t", " ", "s", "t", "e", "p", "(">>

STEP_CALL == <<"s", "t", "e", "p", "(">>

\* line.includes(sub)
Includes(s, sub) ==
    \E i \in 0 .. (Len(s) - Len(sub)) : SubSeq(s, i + 1, i + Len(sub)) = sub

\* (line.match(/c/g) || []).length
CountChar(s, c) == Cardinality({i \in DOMAIN s : s[i] = c})

\* The chain of tests at the head of the loop of parseScopes, on the trimmed
\* line; "none" when the line starts no scope.
ScopeTypeOf(line) ==
    IF Includes(line, AWAIT_STEP) THEN "step"
    ELSE IF StartsWith(line, NAME_BEFORE \o <<"(">>) THEN "before"
    ELSE IF StartsWith(line, NAME_BEFORE_EACH \o <<"(">>) THEN "beforeEach"
    ELSE IF StartsWith(line, NAME_TEST \o <<"(">>) THEN "test"
    ELSE IF StartsWith(line, NAME_DESCRIBE \o <<"(">>) THEN "describe"
    ELSE "none"

ScopeInfo(type, startLine, endLine, level) ==
    [type |-> type, startLine |-> startLine, endLine |-> endLine, level |-> level]

\* while (stack.length > 0 && currentLevel <= top.startLevel) pop, at line i
RECURSIVE PopClosed(_, _)
PopClosed(ps, i) ==
    IF Len(ps.stack) > 0 /\ ps.level <= ps.stack[Len(ps.stack)].startLevel
    THEN PopClosed([ps EXCEPT
                      !.stack = SubSeq(ps.stack, 1, Len(ps.stack) - 1),
                      !.scopes = Append(ps.scopes,
                                        ScopeInfo(ps.stack[Len(ps.stack)].type,
                                                  ps.stack[Len(ps.stack)].startLine,
                                                  i,
                                                  ps.stack[Len(ps.stack)].startLevel))],
                   i)
    ELSE ps

\* One round of the loop of parseScopes: line i (0-based) of type `type'.
ScopeStep(ps, type, line, i) ==
    PopClosed([ps EXCEPT
                 !.stack = IF type = "none" THEN ps.stack
                           ELSE Append(ps.stack,
                                       [type |-> type, startLine |-> i,
                                        startLevel |-> ps.level]),
                 !.level = ps.level + CountChar(line, "{") - CountChar(line, "}")],
              i)

RECURSIVE ScopesFrom(_, _, _)
ScopesFrom(lines, i, ps) ==
    IF i > Len(lines) THEN ps
    ELSE ScopesFrom(lines, i + 1, ScopeStep(ps, ScopeTypeOf(Trim(lines[i])), lines[i], i - 1))

\* "Close any remaining scopes": innermost first, ending at the last line.
RemainingScopes(stack, lastLine) ==
    [k \in 1 .. Len(stack) |->
        ScopeInfo(stack[Len(stack) + 1 - k].type, stack[Len(stack) + 1 - k].startLine,
                  lastLine, stack[Len(stack) + 1 - k].startLevel)]

ScopesOf(ps, lastLine) == ps.scopes \o RemainingScopes(ps.stack, lastLine)

parseScopes(lines) ==
    ScopesOf(ScopesFrom(lines, 1, [stack |-> << >>, scopes |-> << >>, level |-> 0]),
             Len(lines) - 1)

NoScope == ScopeInfo("none", 0 - 1, 0 - 1, 0 - 1)

\* scopes.find(...): the first scope of the array among those at `hits'.
FirstOf(scopes, hits) == IF hits = {} THEN NoScope ELSE scopes[Min(hits)]

\* s.type === 'step' && s.startLine < markerLine && s.endLine >= markerLine
StepAround(scopes, m) ==
    {k \in DOMAIN scopes :
        scopes[k].type = "step" /\ scopes[k].startLine < m /\ scopes[k].endLine >= m}

\* s.type === type && s.startLine < markerLine && s.endLine > markerLine
ScopeAround(scopes, type, m) ==
    {k \in DOMAIN scopes :
        scopes[k].type = type /\ scopes[k].startLine < m /\ scopes[k].endLine > m}

\* The steps strictly inside the test scope t.
StepsInTest(scopes, t) ==
    {k \in DOMAIN scopes :
        /\ scopes[k].type = "step"
        /\ scopes[k].startLine > t.startLine
        /\ scopes[k].endLine < t.endLine}

\* The last step that starts before the marker, else the first of the array
\* that starts after it, else none.
NearbyStep(scopes, inTest, m) ==
    IF \E k \in inTest : scopes[k].startLine < m
    THEN scopes[CHOOSE k \in inTest :
                    /\ scopes[k].startLine < m
                    /\ \A j \in inTest :
                           scopes[j].startLine < m
                               => scopes[j].startLine <= scopes[k].startLine]
    ELSE FirstOf(scopes, {k \in inTest : scopes[k].startLine > m})

\* currentScope of findLinesToComment / findLinesToUncomment
CurrentScope(scopes, testScope, m) ==
    IF StepAround(scopes, m) # {} THEN FirstOf(scopes, StepAround(scopes, m))
    ELSE IF testScope = NoScope THEN NoScope
    ELSE NearbyStep(scopes, StepsInTest(scopes, testScope), m)

\* /^\/\/\s*@(debug|undebug)$/ on the trimmed line
IsGateMarker(line) ==
    /\ StartsWith(line, SLASHES)
    /\ SkipSpaces(Drop(line, 2)) \in {<<"@", "d", "e", "b", "u", "g">>,
                                     <<"@", "u", "n", "d", "e", "b", "u", "g">>}

\* /^(await\s+)?step\(/ on the trimmed line
IsStepDecl(line) ==
    \/ StartsWith(line, STEP_CALL)
    \/ /\ StartsWith(line, AWAIT)
       /\ LeadingSpaceCount(Drop(line, Len(AWAIT))) >= 1
       /\ StartsWith(SkipSpaces(Drop(line, Len(AWAIT))), STEP_CALL)

\* /^(before|beforeEach)\(/ on the trimmed line
IsBeforeDecl(line) ==
    StartsWith(line, NAME_BEFORE \o <<"(">>) \/ StartsWith(line, NAME_BEFORE_EACH \o <<"(">>)

\* The test a line must pass to be picked.  where: "step" in the current
\* step and at test level, "previous" in the earlier steps, "before" in the
\* before/beforeEach blocks.
Picked(mode, where, line) ==
    IF mode = "undebug"
    THEN StartsWith(line, SLASHES) /\ ~StartsWith(line, <<"/", "/", " ", "@">>)
    ELSE /\ Len(line) > 0
         /\ ~IsGateMarker(line)
         /\ CASE where = "step" -> ~IsStepDecl(line)
              [] where = "previous" -> ~Includes(line, AWAIT_STEP)
              [] OTHER -> ~IsBeforeDecl(line)

PickedIn(mode, where, lines, from, to) ==
    {i \in from .. to : Picked(mode, where, Trim(lines[i + 1]))}

ASYNC_ARROWS == {<<"a", "s", "y", "n", "c", " ", "(", ")", " ", "=", ">">>, <<"a", "s", "y", "n", "c", "(", ")", "=", ">">>}

HasAsyncArrow(line) == \E a \in ASYNC_ARROWS : Includes(line, a)

\* The line after the first `{' at or after line i, `fallback' without one.
AfterBrace(lines, i, endLine, fallback) ==
    IF \E j \in i .. (endLine - 1) : "{" \in Range(lines[j + 1])
    THEN 1 + Min({j \in i .. (endLine - 1) : "{" \in Range(lines[j + 1])})
    ELSE fallback

\* testBodyStart: the line after the brace that follows the first async
\* arrow of the test.
TestBodyStart(lines, t) ==
    IF \E i \in t.startLine .. (t.endLine - 1) : HasAsyncArrow(lines[i + 1])
    THEN AfterBrace(lines,
                    Min({i \in t.startLine .. (t.endLine - 1) : HasAsyncArrow(lines[i + 1])}),
                    t.endLine, t.startLine + 1)
    ELSE t.startLine + 1

\* 1. the current step up to the marker
InCurrentStep(mode, lines, cur, m) ==
    IF m > cur.startLine
    THEN PickedIn(mode, "step", lines, cur.startLine + 1, Min({m, cur.endLine}) - 1)
    ELSE {}

\* 2. the earlier steps of the test
InPreviousSteps(mode, lines, scopes, inTest, cur) ==
    UNION {PickedIn(mode, "previous", lines,
                    scopes[k].startLine + 1, scopes[k].endLine - 1) :
              k \in {j \in inTest : scopes[j].startLine < cur.startLine}}

\* the test-level code before the first step
BeforeFirstStep(mode, lines, scopes, inTest, t) ==
    IF inTest = {} THEN {}
    ELSE PickedIn(mode, "step", lines, TestBodyStart(lines, t),
                  Min({scopes[k].startLine : k \in inTest}) - 1)

\* the test-level code between two steps next to each other, up to the
\* current step
BetweenSteps(mode, lines, scopes, inTest, cur) ==
    UNION {PickedIn(mode, "step", lines,
                    scopes[pair[1]].endLine + 1, scopes[pair[2]].startLine - 1) :
              pair \in {q \in inTest \X inTest :
                           /\ scopes[q[1]].startLine < scopes[q[2]].startLine
                           /\ \A j \in inTest :
                                  ~(/\ scopes[q[1]].startLine < scopes[j].startLine
                                    /\ scopes[j].startLine < scopes[q[2]].startLine)
                           /\ scopes[q[2]].startLine <= cur.startLine}}

\* 3. the before and beforeEach blocks
InBeforeBlocks(mode, lines, scopes) ==
    UNION {PickedIn(mode, "before", lines,
                    scopes[k].startLine + 1, scopes[k].endLine - 1) :
              k \in {j \in DOMAIN scopes : scopes[j].type \in {"before", "beforeEach"}}}

InTestOf(mode, lines, scopes, t, cur) ==
    IF t = NoScope THEN {}
    ELSE InPreviousSteps(mode, lines, scopes, StepsInTest(scopes, t), cur)
         \cup BeforeFirstStep(mode, lines, scopes, StepsInTest(scopes, t), t)
         \cup BetweenSteps(mode, lines, scopes, StepsInTest(scopes, t), cur)

LinesAround(mode, lines, scopes, t, cur, m) ==
    IF cur = NoScope THEN {}
    ELSE InCurrentStep(mode, lines, cur, m)
         \cup InTestOf(mode, lines, scopes, t, cur)
         \cup InBeforeBlocks(mode, lines, scopes)

LinesWithTest(mode, lines, scopes, t, m) ==
    LinesAround(mode, lines, scopes, t, CurrentScope(scopes, t, m), m)

\* findLinesToComment / findLinesToUncomment for a marker that is in no
\* before()/beforeEach() block (the documents hold none): the two differ in
\* the test a line must pass only.
findLines(mode, lines, scopes, m) ==
    LinesWithTest(mode, lines, scopes, FirstOf(scopes, ScopeAround(scopes, "test", m)), m)

\* The line an edit of the given mode puts in place of `line', the line
\* itself where the loop of processDebugModeForSave / processUndebugModeForSave
\* skips it.  indent is the match of /^(\s*)/.
CommentedLine(indent, afterIndent) ==
    IF Len(afterIndent) = 0 \/ StartsWith(afterIndent, SLASHES \o SLASHES)
    THEN indent \o afterIndent
    ELSE IF StartsWith(afterIndent, SLASHES) THEN indent \o SLASHES \o afterIndent
    ELSE indent \o SLASHES \o <<" ">> \o afterIndent

UncommentedLine(indent, afterIndent) ==
    IF Trim(afterIndent) \in {GATE_DEBUG_TAG, GATE_UNDEBUG_TAG} THEN indent \o afterIndent
    ELSE IF StartsWith(afterIndent, SLASHES \o SLASHES) THEN indent \o Drop(afterIndent, 2)
    ELSE IF StartsWith(afterIndent, SLASHES \o <<" ">>) THEN indent \o Drop(afterIndent, 3)
    ELSE indent \o afterIndent

GateEditOf(mode, line) ==
    IF mode = "debug"
    THEN CommentedLine(SubSeq(line, 1, LeadingSpaceCount(line)), SkipSpaces(line))
    ELSE UncommentedLine(SubSeq(line, 1, LeadingSpaceCount(line)), SkipSpaces(line))

\* "Ensure debug marker is inside a describe or test callback"
InDescribeOrTest(scopes, m) ==
    ScopeAround(scopes, "describe", m) # {} \/ ScopeAround(scopes, "test", m) # {}

\* The lines (0-based) the edits of processDebugModeForSave,
\* processUndebugModeForSave, processDebugMode and processUndebugMode replace.
GateEditsIn(mode, lines, scopes, m) ==
    IF ~InDescribeOrTest(scopes, m) THEN {}
    ELSE {i \in findLines(mode, lines, scopes, m) \ {m} :
             GateEditOf(mode, lines[i + 1]) # lines[i + 1]}

GateEdits(mode, lines, m) == GateEditsIn(mode, lines, parseScopes(lines), m)

\* The document after the edits.
GateApply(mode, lines, edits) ==
    [i \in DOMAIN lines |->
        IF (i - 1) \in edits THEN GateEditOf(mode, lines[i]) ELSE lines[i]]

\* debugLines / undebugLines: lines[i].trim() === tag, 0-based
GateTagLines(lines, tag) == {i - 1 : i \in {j \in DOMAIN lines : Trim(lines[j]) = tag}}

\* What a handler did with the document.
GateResult(outcome, message, mode, lines, record) ==
    [outcome |-> outcome, message |-> message, mode |-> mode, lines |-> lines,
     record |-> record]

\* lastOperationMap.get(documentUri)
LastOperationOfAny(map, documentUri) ==
    IF \E u \in DOMAIN map : map[u] # "none"
    THEN map[CHOOSE u \in DOMAIN map : map[u] # "none" /\ (map[documentUri] # "none" => u = documentUri)]
    ELSE "none"

LastOperationOf(map, documentUri) == map[documentUri]

GateCheckUnchecked(mode, lines, m, last) ==
    GateResult("processed", "", mode, GateApply(mode, lines, GateEdits(mode, lines, m)), mode)

\* From the consecutive-operation check on: the mode is known, last is
\* lastOperationMap.get(documentUri).
GateCheck(mode, lines, m, last) ==
    IF last = mode
    THEN GateResult("rejected", "Cannot run @" \o mode \o " consecutively", mode, lines, last)
    ELSE GateResult("processed", "", mode,
                    GateApply(mode, lines, GateEdits(mode, lines, m)), mode)

GateMarkers(lines, debugLines, undebugLines, last) ==
    IF Cardinality(debugLines) > 1
    THEN GateResult("invalid", "Multiple @debug markers found", "", lines, last)
    ELSE IF Cardinality(undebugLines) > 1
    THEN GateResult("invalid", "Multiple @undebug markers found", "", lines, last)
    ELSE IF debugLines # {} /\ undebugLines # {}
    THEN GateResult("invalid", "Both @debug and @undebug markers found", "", lines, last)
    ELSE IF debugLines = {} /\ undebugLines = {}
    THEN GateResult("nothing", "", "", lines, last)
    ELSE IF debugLines # {}
    THEN GateCheck("debug", lines, Min(debugLines), last)
    ELSE GateCheck("undebug", lines, Min(undebugLines), last)

\* processDebugMarkersForSave(document) and processDebugMarkers(document),
\* with the edits they return applied.
processDebugMarkers(lines, last) ==
    GateMarkers(lines, GateTagLines(lines, GATE_DEBUG_TAG),
                GateTagLines(lines, GATE_UNDEBUG_TAG), last)

\* text.includes('// @debug') || text.includes('// @undebug')
HasGateTag(lines) ==
    \E i \in DOMAIN lines :
        Includes(lines[i], GATE_DEBUG_TAG) \/ Includes(lines[i], GATE_UNDEBUG_TAG)

\* The handler of onWillSaveTextDocument.
processOnWillSave(lines, last) ==
    IF HasGateTag(lines) THEN processDebugMarkers(lines, last)
    ELSE GateResult("nothing", "", "", lines, last)

\* The handler of the toggle command of this extension, the cursor on line
\* n (0-based).
GateToggled(lines, n) ==
    IF Trim(lines[n + 1]) = GATE_DEBUG_TAG
    THEN [lines EXCEPT ![n + 1] =
             SubSeq(lines[n + 1], 1, LeadingSpaceCount(lines[n + 1])) \o GATE_UNDEBUG_TAG]
    ELSE IF Trim(lines[n + 1]) = GATE_UNDEBUG_TAG
    THEN SubSeq(lines, 1, n) \o Drop(lines, n + 1)
    ELSE IF Trim(lines[n + 1]) = << >>
    THEN [lines EXCEPT ![n + 1] = lines[n + 1] \o GATE_DEBUG_TAG]
    ELSE SubSeq(lines, 1, n)
         \o <<SubSeq(lines[n + 1], 1, LeadingSpaceCount(lines[n + 1])) \o GATE_DEBUG_TAG>>
         \o Drop(lines, n)

G_TEST == <<"t", "e", "s", "t", "(", "a", "s", "y", "n", "c", " ", "(", ")", " ", "=", ">", " ", "{">>

G_STEP == <<"a", "w", "a", "i", "t", " ", "s", "t", "e", "p", "(", "a", "s", "y", "n", "c", " ", "(", ")", " ", "=", ">", " ", "{">>

\* A statement with the tag behind it: the text includes the tag, no line is
\* the tag.
G_STMT_TAGGED == L_STMT \o <<" ">> \o GATE_DEBUG_TAG

\* The documents: <<lines before the marker, lines after it>>.
GateDocuments ==
    {\* two steps in a test, the marker in the first
     << <<G_TEST, G_STEP, L_STMT>>, <<L_CLOSE, G_STEP, L_STMT, L_CLOSE, L_CLOSE>> >>,
     \* the marker in the second
     << <<G_TEST, G_STEP, L_STMT, L_CLOSE, L_STMT, G_STEP, L_STMT>>, <<L_CLOSE, L_CLOSE>> >>,
     \* a test without a step
     << <<G_TEST, L_STMT>>, <<L_CLOSE>> >>,
     \* the marker in no scope
     << <<L_STMT>>, <<G_TEST, L_CLOSE>> >>,
     \* no marker line, the tag behind a statement
     << <<G_TEST, G_STMT_TAGGED>>, <<L_CLOSE>> >>}

----------------------------------------------------------------------------
(* The state machine: a text is transformed, and the result is transformed *)
(* again, either as it is or with its //@debug marker turned into          *)
(* //@undebug                                                              *)

\* text:   the document text handed to the transform
\* config: the Partial<ProcessorConfig> handed to it
\* out:    what the call returned or threw, Idle before the call
\* pass:   the number of the call (1 for the first)
\* hist:   input and output of the earlier calls, and how the next input
\*         was made of the output
\* call:   the locals of the call that produced out
VARIABLES text, config, out, pass, hist, call

\* docs:             the lines of each open document of the extension with the
\*                   operation gate
\* lastOperationMap: its map of the last operation per document, "none" for a
\*                   document without an entry
\* seen:             the last handler that ran, and what it showed and did
\* log:              per document, the modes of the operations processed
\* ops:              the number of handlers that ran
VARIABLES docs, lastOperationMap, seen, log, ops

\* editors:                 the open editors of the extension: the lines of the
\*                          document, the cursor line, and whether it is dirty
\* skipNextSaveForDocument: the set of that name of activate
\* saveEvents:              the save events not yet handed to the onSave handler
\* handler:                 the onSave handler that is waiting at an await
\* saveLog:                 what the onSave handler did with each save event
\* shown:                   the error messages shown
\* step:                    the last thing that happened
\* edOps:                   the number of saves and toggle commands of the user
VARIABLES editors, skipNextSaveForDocument, saveEvents, handler, saveLog, shown, step,
          edOps

transformVars == <<text, config, out, pass, hist, call>>

gateVars == <<docs, lastOperationMap, seen, log, ops>>

editorVars ==
    <<editors, skipNextSaveForDocument, saveEvents, handler, saveLog, shown, step, edOps>>

\* rewrite: a line, what the rewrites of the loop of the transform made of
\*          it, and how many of each mode were applied
VARIABLE rewrite

vars == <<transformVars, gateVars, editorVars, rewrite>>

MaxRewrites == 3

NoRewrite == [line |-> << >>, now |-> << >>, debugs |-> 0, undebugs |-> 0]

\* No line is being rewritten on its own.
RewriteClosed == rewrite = NoRewrite

MaxPasses == 2

MaxBody == 2

MaxMarkerLines == 4

MaxGateOps == 4

Uris == {"a", "b"}

NoOperation ==
    [uri |-> "", handler |-> "", outcome |-> "", message |-> "", mode |-> "",
     before |-> << >>, last |-> ""]

\* The extension with the operation gate is not running.
GateClosed ==
    /\ docs = [u \in Uris |-> << >>]
    /\ lastOperationMap = [u \in Uris |-> "none"]
    /\ seen = NoOperation
    /\ log = [u \in Uris |-> << >>]
    /\ ops = 0

NoHandler == [uri |-> "", id |-> 0, pc |-> "", newText |-> << >>, applied |-> FALSE]

NoStep == [action |-> "", uri |-> ""]

\* The extension with the onDidSaveTextDocument handler is not running.
EditorsClosed ==
    /\ editors = [u \in Uris |-> [lines |-> << >>, cursor |-> 0, dirty |-> FALSE]]
    /\ skipNextSaveForDocument = {}
    /\ saveEvents = << >>
    /\ handler = NoHandler
    /\ saveLog = << >>
    /\ shown = << >>
    /\ step = NoStep
    /\ edOps = 0

Idle == [kind |-> "idle", text |-> << >>, error |-> ""]

\* No call in progress: none of the locals of the transform is set.
NoCall == [markerInfo |-> NoMarker, lines |-> << >>]

\* The text with the oldLen characters at offset start replaced by newLine.
ReplaceAt(t, start, oldLen, newLine) ==
    SubSeq(t, 1, start) \o newLine \o Drop(t, start + oldLen)

\* The text with line n (0-based) replaced by newLine, every terminator kept.
ReplaceLine(t, n, newLine) ==
    ReplaceAt(t, LineStarts(t)[n + 1], Len(SplitLines(t)[n + 1]), newLine)

\* `${indent}${UNDEBUG_TAG}`
RetaggedLine(lineText) ==
    SubSeq(lineText, 1, LeadingSpaceCount(lineText)) \o UNDEBUG_TAG

RetagLineAt(t, n) == ReplaceLine(t, n, RetaggedLine(SplitLines(t)[n + 1]))

\* toggleDebugMarker on a //@debug line: the line becomes indent + //@undebug.
RetagText(t) == RetagLineAt(t, Min(TagLines(SplitLines(t), DEBUG_TAG)))

HasOneDebugMarkerIn(lines) ==
    /\ Cardinality(TagLines(lines, DEBUG_TAG)) = 1
    /\ TagLines(lines, UNDEBUG_TAG) = {}

HasOneDebugMarker(t) == HasOneDebugMarkerIn(SplitLines(t))

\* No text is handed to the transform.
TransformClosed ==
    /\ text = << >>
    /\ config = [hasPF |-> FALSE, protectedFunctions |-> << >>,
                 hasAL |-> FALSE, functionAllowlist |-> << >>]
    /\ out = Idle
    /\ pass = 1
    /\ hist = << >>
    /\ call = NoCall

\* The texts: a skeleton of callbacks around a body of statement lines, the
\* marker line after the body.  A skeleton is <<lines before, lines after>>.
L_STMT_COMMENTED == Indented(Commented(L_STMT))

L_NOTE == SLASHES \o <<" ">> \o L_STMT

Skeletons ==
    {\* the marker in a callback body
     << <<L_OPEN>>, <<L_CLOSE>> >>,
     \* declarations, a comment and a blank line in the body
     << <<L_OPEN, L_VAR, L_VAR_CALL, L_NOTE, Commented(Commented(L_STMT)),
          Indented(L_BLANK)>>,
        <<L_CLOSE>> >>,
     \* the marker in a nested callback, a commented line in the outer body
     << <<L_OPEN, Commented(L_STMT), L_OPEN>>, <<L_CLOSE, L_CLOSE>> >>,
     \* a callback follows the marker's callback
     << <<L_OPEN, L_STMT, L_OPEN, Indented(L_BLANK)>>,
        <<L_CLOSE, L_OPEN, L_STMT, L_CLOSE, L_CLOSE>> >>,
     \* the marker in the outer body after an inner callback
     << <<L_OPEN, L_OPEN, L_STMT, L_CLOSE>>, <<L_CLOSE>> >>,
     \* a commented-out callback before an inner callback
     << <<L_OPEN, Commented(L_OPEN), Commented(L_CLOSE), L_VAR, L_OPEN, L_STMT,
          L_CLOSE>>,
        <<L_CLOSE>> >>,
     \* a callback of a name outside the default set
     << <<L_OPEN_F>>, <<L_CLOSE>> >>,
     << <<L_OPEN, L_OPEN_F>>, <<L_CLOSE, L_CLOSE>> >>,
     \* statements after the marker
     << <<L_OPEN>>, <<L_STMT, L_VAR, L_CLOSE>> >>,
     \* the marker outside every callback
     << << >>, <<L_OPEN, L_STMT, L_CLOSE>> >>,
     \* a callback that is never closed, a closer too many
     << <<L_OPEN, L_OPEN>>, <<L_CLOSE>> >>,
     << <<L_OPEN, L_STMT, L_CLOSE>>, <<L_CLOSE>> >>}

\* Skeletons of the scenarios of logic.test.ts and the README; they hold
\* their statements themselves and take a body of at most one line.
Scenarios ==
    {\* hooks and a test before the marker's test, all in one describe
     << <<L_DESCRIBE, L_BEFORE, L_STMT, L_CLOSE, L_BEFORE_EACH, L_STMT, L_CLOSE,
          L_OPEN, L_STMT, L_CLOSE, L_TEST>>,
        <<L_CLOSE, L_CLOSE>> >>,
     \* the closer of before() commented out ahead of the marker's test()
     << <<L_DESCRIBE, L_BEFORE, L_STMT_COMMENTED, Indented(Commented(L_CLOSE)),
          L_TEST>>,
        <<L_CLOSE, L_CLOSE>> >>,
     \* declarations of every kind of initializer
     << <<L_OPEN, L_VAR, L_VAR_CALL, L_VAR_AWAIT, L_VAR_STATIC, L_VAR_INSTANCE,
          L_VAR_NEW, L_VAR_OTHER, L_VAR_OTHER_MEMBER, L_VAR_PROTECTED,
          L_VAR_TWO, L_VAR_TWO_ALLOWED, L_VAR_TWO_CALLS>>,
        <<L_CLOSE>> >>,
     \* the marker in the callback of a member call only
     << <<L_DESCRIBE_ONLY>>, <<L_CLOSE>> >>,
     \* a callback of a default name inside a callback of another name
     << <<L_OPEN_F, L_OPEN, L_STMT, L_CLOSE>>, <<L_CLOSE>> >>,
     \* the marker in the callback of a call with a multiline signature
     << <<L_OPEN, L_HEAD, L_ARROW, L_STMT>>, <<L_RBRACE, L_RPAREN, L_CLOSE>> >>,
     \* such a call, two callbacks deep, closed before the marker, and a
     \* multiline call of a default name without a callback
     << <<L_OPEN, L_OPEN, L_HEAD, L_ARROW, L_STMT, L_RBRACE, L_RPAREN, L_CLOSE,
          L_HEAD, L_STMT, L_RPAREN>>,
        <<L_CLOSE>> >>}

\* Texts on which the ambiguity guard decides.
GuardScenarios ==
    {\* the marker among the arguments of a call, above its callback
     << <<L_OPEN, L_HEAD>>, <<L_ARROW, L_STMT, L_RBRACE, L_RPAREN, L_CLOSE>> >>,
     \* the marker among the arguments of a call without callback
     << <<L_OPEN, L_HEAD>>, <<L_STMT, L_RPAREN, L_CLOSE>> >>,
     \* the marker below a commented-out opener
     << <<L_OPEN, L_STMT, Commented(L_OPEN)>>, <<Commented(L_CLOSE), L_CLOSE>> >>}

Bodies == SeqsUpTo({L_STMT, L_STMT_COMMENTED}, MaxBody)

ShortBodies == SeqsUpTo({L_STMT, L_STMT_COMMENTED}, 1)

\* <<skeleton, body>>
Shapes ==
    (Skeletons \X Bodies) \cup (Scenarios \X ShortBodies)
    \cup (GuardScenarios \X {<< >>})

Markers == {DEBUG_TAG, UNDEBUG_TAG, Indented(DEBUG_TAG)}

Init ==
    /\ \E shape \in Shapes, marker \in Markers, eol \in Eols :
           text = Join(shape[1][1] \o shape[2] \o <<marker>> \o shape[1][2], eol)
    /\ config \in Configs
    /\ out = Idle
    /\ pass = 1
    /\ hist = << >>
    /\ call = NoCall
    /\ GateClosed
    /\ EditorsClosed
    /\ RewriteClosed

\* Texts for the marker locator: any lines, markers and near-markers among
\* them, inside one callback.
MarkerishLines == {L_STMT, DEBUG_TAG, UNDEBUG_TAG, Indented(UNDEBUG_TAG), L_NEAR_DEBUG}

InitMarkers ==
    /\ \E body \in SeqsUpTo(MarkerishLines, MaxMarkerLines), eol \in Eols :
           text = Join(<<L_OPEN>> \o body \o <<L_CLOSE>>, eol)
    /\ config \in Configs
    /\ out = Idle
    /\ pass = 1
    /\ hist = << >>
    /\ call = NoCall
    /\ GateClosed
    /\ EditorsClosed
    /\ RewriteClosed

\* Texts whose lines end with "\n" or "\r\n", each line with its own.
RECURSIVE JoinEachFrom(_, _, _, _)
JoinEachFrom(lines, eols, i, acc) ==
    IF i > Len(lines)
    THEN acc
    ELSE JoinEachFrom(lines, eols, i + 1,
                      IF i = 1 THEN lines[1] ELSE acc \o eols[i - 1] \o lines[i])

JoinEach(lines, eols) == JoinEachFrom(lines, eols, 1, << >>)

Terminators(lines) == [1..(Len(lines) - 1) -> Eols]

MixedLines == {<<L_OPEN>> \o body \o <<marker, L_CLOSE>> : body \in Bodies, marker \in Markers}

InitMixed ==
    /\ \E lines \in MixedLines : \E eols \in Terminators(lines) :
           text = JoinEach(lines, eols)
    /\ config \in Configs
    /\ out = Idle
    /\ pass = 1
    /\ hist = << >>
    /\ call = NoCall
    /\ GateClosed
    /\ EditorsClosed
    /\ RewriteClosed

\* computeTransformedTextWithConfig(text, config), its locals kept in call.
Transform ==
    /\ out.kind = "idle"
    /\ call' = CallLocals(text, config)
    /\ out' = ResultOf(text, call')
    /\ UNCHANGED <<text, config, pass, hist>>
    /\ UNCHANGED <<gateVars, editorVars, rewrite>>

\* processFileOnSave replaced the document by the returned text; the next
\* save transforms that text.
Feed ==
    /\ out.kind = "text"
    /\ pass < MaxPasses
    /\ text' = out.text
    /\ out' = Idle
    /\ call' = NoCall
    /\ pass' = pass + 1
    /\ hist' = Append(hist, [input |-> text, output |-> out.text, via |-> "feed"])
    /\ UNCHANGED config
    /\ UNCHANGED <<gateVars, editorVars, rewrite>>

\* As Feed, after toggleDebugMarker on the //@debug line of the returned text.
Retag ==
    /\ out.kind = "text"
    /\ pass < MaxPasses
    /\ HasOneDebugMarker(out.text)
    /\ text' = RetagText(out.text)
    /\ out' = Idle
    /\ call' = NoCall
    /\ pass' = pass + 1
    /\ hist' = Append(hist, [input |-> text, output |-> out.text, via |-> "retag"])
    /\ UNCHANGED config
    /\ UNCHANGED <<gateVars, editorVars, rewrite>>

Next == Transform \/ Feed \/ Retag

Spec == Init /\ [][Next]_vars

SpecMixed == InitMixed /\ [][Next]_vars

SpecMarkers == InitMarkers /\ [][Next]_vars

----------------------------------------------------------------------------
(* The state machine of the extension with the operation gate: documents   *)
(* are saved, processed by the command and edited by the toggle command    *)

GateMarkerLines == {<<GATE_DEBUG_TAG>>, <<GATE_UNDEBUG_TAG>>, << >>}

GateTexts == {d[1] \o marker \o d[2] : d \in GateDocuments, marker \in GateMarkerLines}

\* The second document is one of the first two texts with a marker.
GateTextsOf(u) ==
    IF u = "a" THEN GateTexts
    ELSE {<<G_TEST, G_STEP, L_STMT>> \o marker \o <<L_CLOSE, L_CLOSE>> :
             marker \in {<<GATE_DEBUG_TAG>>, <<GATE_UNDEBUG_TAG>>}}

InitGate ==
    /\ TransformClosed
    /\ EditorsClosed
    /\ RewriteClosed
    /\ docs \in {d \in [Uris -> UNION {GateTextsOf(u) : u \in Uris}] :
                    \A u \in Uris : d[u] \in GateTextsOf(u)}
    /\ lastOperationMap = [u \in Uris |-> "none"]
    /\ seen = NoOperation
    /\ log = [u \in Uris |-> << >>]
    /\ ops = 0

\* The state after a handler ran on document u with result r.
GateHandled(u, by, r) ==
    /\ ops' = ops + 1
    /\ docs' = [docs EXCEPT ![u] = r.lines]
    /\ lastOperationMap' = [lastOperationMap EXCEPT ![u] = r.record]
    /\ log' = [log EXCEPT ![u] = IF r.outcome = "processed" THEN Append(@, r.mode) ELSE @]
    /\ seen' = [uri |-> u, handler |-> by, outcome |-> r.outcome,
                message |-> r.message, mode |-> r.mode, before |-> docs[u],
                last |-> lastOperationMap[u]]
    /\ UNCHANGED <<transformVars, editorVars, rewrite>>

\* onWillSaveTextDocument of a document
SaveGated ==
    \E u \in Uris :
        /\ ops < MaxGateOps
        /\ GateHandled(u, "save", processOnWillSave(docs[u], LastOperationOf(lastOperationMap, u)))

\* The command mocha-test-debug-helper.processDebug, the document in the
\* active editor.
CommandGated ==
    \E u \in Uris :
        /\ ops < MaxGateOps
        /\ GateHandled(u, "command", processDebugMarkers(docs[u], LastOperationOf(lastOperationMap, u)))

\* The lines the cursor is put on before the toggle command: a marker line,
\* or the third line of the document.
GateCursorLines(lines) ==
    (GateTagLines(lines, GATE_DEBUG_TAG) \cup GateTagLines(lines, GATE_UNDEBUG_TAG) \cup {2})
        \cap (0 .. (Len(lines) - 1))

\* The command mocha-test-debug-helper.toggleDebugMarker
ToggleGated ==
    \E u \in Uris : \E n \in GateCursorLines(docs[u]) :
        /\ ops < MaxGateOps
        /\ GateHandled(u, "toggle",
                       GateResult("toggled", "", "", GateToggled(docs[u], n),
                                  lastOperationMap[u]))

NextGate == SaveGated \/ CommandGated \/ ToggleGated

SpecGate == InitGate /\ [][NextGate]_vars

----------------------------------------------------------------------------
(* The state machine of the extension: the toggle command and the handler  *)
(* of onDidSaveTextDocument, which runs from await to await                *)

MaxEditorOps == 4

\* A plausible slip: the //@debug line inserted below the cursor line.
ToggledLinesBelow(lines, n) ==
    IF Trim(lines[n + 1]) = DEBUG_TAG
    THEN [lines EXCEPT ![n + 1] = RetaggedLine(lines[n + 1])]
    ELSE IF Trim(lines[n + 1]) = UNDEBUG_TAG
    THEN IF n + 1 = Len(lines) THEN [lines EXCEPT ![n + 1] = << >>]
         ELSE SubSeq(lines, 1, n) \o Drop(lines, n + 1)
    ELSE IF Len(Trim(lines[n + 1])) > 0
    THEN SubSeq(lines, 1, n + 1)
         \o <<SubSeq(lines[n + 1], 1, LeadingSpaceCount(lines[n + 1])) \o DEBUG_TAG>>
         \o Drop(lines, n + 1)
    ELSE [lines EXCEPT ![n + 1] = lines[n + 1] \o DEBUG_TAG]

\* The lines after toggleDebugMarker with the cursor on line n (0-based).
\* line.rangeIncludingLineBreak of the last line is the range of the line.
ToggledLines(lines, n) ==
    IF Trim(lines[n + 1]) = DEBUG_TAG
    THEN [lines EXCEPT ![n + 1] = RetaggedLine(lines[n + 1])]
    ELSE IF Trim(lines[n + 1]) = UNDEBUG_TAG
    THEN IF n + 1 = Len(lines) THEN [lines EXCEPT ![n + 1] = << >>]
         ELSE SubSeq(lines, 1, n) \o Drop(lines, n + 1)
    ELSE IF Len(Trim(lines[n + 1])) > 0
    THEN SubSeq(lines, 1, n)
         \o <<SubSeq(lines[n + 1], 1, LeadingSpaceCount(lines[n + 1])) \o DEBUG_TAG>>
         \o Drop(lines, n)
    ELSE [lines EXCEPT ![n + 1] = lines[n + 1] \o DEBUG_TAG]

\* The line of nextCursor.
ToggledCursor(lines, n) ==
    IF Trim(lines[n + 1]) = UNDEBUG_TAG THEN Max({0, n - 1}) ELSE n

toggleDebugMarker(editor, n) ==
    [lines |-> ToggledLines(editor.lines, n),
     cursor |-> ToggledCursor(editor.lines, n),
     dirty |-> TRUE]

\* text.includes(DEBUG_TAG) || text.includes(UNDEBUG_TAG)
HasTag(lines) ==
    \E i \in DOMAIN lines : Includes(lines[i], DEBUG_TAG) \/ Includes(lines[i], UNDEBUG_TAG)

\* config.get(...) of a workspace without settings: the defaults.
WorkspaceConfig ==
    [hasPF |-> TRUE, protectedFunctions |-> DEFAULT_PROTECTED_FUNCTIONS,
     hasAL |-> TRUE, functionAllowlist |-> DEFAULT_FUNCTION_ALLOWLIST]

\* skipNextSaveForDocument.has(key)
SkipsNever(skip, key) == FALSE

SkipsNextSave(skip, key) == key \in skip

SaveLogEntry(e, did, error) ==
    [uri |-> e.uri, id |-> e.id, cause |-> e.cause, did |-> did, error |-> error]

\* The handler without showErrorMessage in its catch clause.
HandlerStartSilent(e, originalText, r) ==
    IF r.kind = "error"
    THEN [entry |-> SaveLogEntry(e, "transform", r.error), waiting |-> NoHandler,
          message |-> << >>]
    ELSE IF r.text = originalText
    THEN [entry |-> SaveLogEntry(e, "transform", ""), waiting |-> NoHandler,
          message |-> << >>]
    ELSE [entry |-> SaveLogEntry(e, "transform", ""),
          waiting |-> [uri |-> e.uri, id |-> e.id, pc |-> "applyEdit",
                       newText |-> r.text, applied |-> FALSE],
          message |-> << >>]

\* What the handler does with save event e up to its first await, r the
\* result of the transform of originalText: the skip set, the log entry, the
\* handler left waiting, the message shown.
HandlerStart(e, originalText, r) ==
    IF r.kind = "error"
    THEN [entry |-> SaveLogEntry(e, "transform", r.error), waiting |-> NoHandler,
          message |-> <<r.error>>]
    ELSE IF r.text = originalText
    THEN [entry |-> SaveLogEntry(e, "transform", ""), waiting |-> NoHandler,
          message |-> << >>]
    ELSE [entry |-> SaveLogEntry(e, "transform", ""),
          waiting |-> [uri |-> e.uri, id |-> e.id, pc |-> "applyEdit",
                       newText |-> r.text, applied |-> FALSE],
          message |-> << >>]

EditorTexts ==
    {\* a file that ends with a line terminator
     <<L_OPEN, Indented(L_STMT), L_CLOSE, L_BLANK>>,
     \* a commented statement and an //@undebug marker, no terminator at the end
     <<L_OPEN, Commented(L_STMT), UNDEBUG_TAG, L_CLOSE>>}

InitEditors ==
    /\ TransformClosed
    /\ GateClosed
    /\ RewriteClosed
    /\ editors \in [Uris -> {[lines |-> t, cursor |-> 0, dirty |-> FALSE] : t \in EditorTexts}]
    /\ skipNextSaveForDocument = {}
    /\ saveEvents = << >>
    /\ handler = NoHandler
    /\ saveLog = << >>
    /\ shown = << >>
    /\ step = NoStep
    /\ edOps = 0

\* Documents without a marker line.
UnmarkedTexts ==
    {<<L_OPEN, Indented(L_STMT), L_CLOSE, L_BLANK>>,
     <<L_OPEN, L_STMT, L_STMT, L_CLOSE>>}

InitToggles ==
    /\ TransformClosed
    /\ GateClosed
    /\ RewriteClosed
    /\ editors \in [Uris -> {[lines |-> t, cursor |-> 0, dirty |-> FALSE] : t \in UnmarkedTexts}]
    /\ skipNextSaveForDocument = {}
    /\ saveEvents = << >>
    /\ handler = NoHandler
    /\ saveLog = << >>
    /\ shown = << >>
    /\ step = NoStep
    /\ edOps = 0

\* The user acts when no save is being handled.
Settled == handler = NoHandler /\ saveEvents = << >>

\* The user saves document u: the file is written and the save event sent.
UserSave ==
    \E u \in Uris :
        /\ Settled
        /\ edOps < MaxEditorOps
        /\ edOps' = edOps + 1
        /\ editors' = [editors EXCEPT ![u].dirty = FALSE]
        /\ saveEvents' = Append(saveEvents, [uri |-> u, cause |-> "user", id |-> edOps + 1])
        /\ step' = [action |-> "save", uri |-> u]
        /\ UNCHANGED <<skipNextSaveForDocument, handler, saveLog, shown>>
        /\ UNCHANGED <<transformVars, gateVars, rewrite>>

\* The toggle command with the cursor where it is.
ToggleHere ==
    \E u \in Uris :
        /\ Settled
        /\ edOps < MaxEditorOps
        /\ edOps' = edOps + 1
        /\ editors' = [editors EXCEPT ![u] = toggleDebugMarker(@, @.cursor)]
        /\ step' = [action |-> "toggle", uri |-> u]
        /\ UNCHANGED <<skipNextSaveForDocument, saveEvents, handler, saveLog, shown>>
        /\ UNCHANGED <<transformVars, gateVars, rewrite>>

\* The lines the user moves the cursor to: the third and the last.
CursorLines(lines) == {2, Len(lines) - 1}

\* The user moves the cursor to another line and runs the toggle command.
ToggleAt ==
    \E u \in Uris : \E n \in CursorLines(editors[u].lines) \ {editors[u].cursor} :
        /\ Settled
        /\ edOps < MaxEditorOps
        /\ edOps' = edOps + 1
        /\ editors' = [editors EXCEPT ![u] = toggleDebugMarker(@, n)]
        /\ step' = [action |-> "toggleAt", uri |-> u]
        /\ UNCHANGED <<skipNextSaveForDocument, saveEvents, handler, saveLog, shown>>
        /\ UNCHANGED <<transformVars, gateVars, rewrite>>

\* The handler of onDidSaveTextDocument takes the next save event, its key in
\* skipNextSaveForDocument: the entry is deleted.
SkipSave ==
    /\ handler = NoHandler
    /\ saveEvents # << >>
    /\ SkipsNextSave(skipNextSaveForDocument, Head(saveEvents).uri)
    /\ skipNextSaveForDocument' = skipNextSaveForDocument \ {Head(saveEvents).uri}
    /\ saveEvents' = Tail(saveEvents)
    /\ saveLog' = Append(saveLog, SaveLogEntry(Head(saveEvents), "skip", ""))
    /\ step' = [action |-> "skip", uri |-> Head(saveEvents).uri]
    /\ UNCHANGED <<editors, handler, shown, edOps>>
    /\ UNCHANGED <<transformVars, gateVars, rewrite>>

\* As SkipSave, the text without a tag: the handler returns.
IgnoreSave ==
    /\ handler = NoHandler
    /\ saveEvents # << >>
    /\ ~SkipsNextSave(skipNextSaveForDocument, Head(saveEvents).uri)
    /\ ~HasTag(editors[Head(saveEvents).uri].lines)
    /\ saveEvents' = Tail(saveEvents)
    /\ saveLog' = Append(saveLog, SaveLogEntry(Head(saveEvents), "untagged", ""))
    /\ step' = [action |-> "ignore", uri |-> Head(saveEvents).uri]
    /\ UNCHANGED <<editors, skipNextSaveForDocument, handler, shown, edOps>>
    /\ UNCHANGED <<transformVars, gateVars, rewrite>>

\* The result of the handler's call of the transform on the text of u.
TransformOf(originalText) ==
    computeTransformedTextWithConfig(originalText, WorkspaceConfig)

HandleStarted(e, started) ==
    /\ saveEvents' = Tail(saveEvents)
    /\ saveLog' = Append(saveLog, started.entry)
    /\ handler' = started.waiting
    /\ shown' = shown \o started.message
    /\ step' = [action |-> "transform", uri |-> e.uri]

\* As SkipSave, the text with a tag: processFileOnSave up to applyEdit, the
\* catch clause when the transform throws.
HandleSave ==
    /\ handler = NoHandler
    /\ saveEvents # << >>
    /\ ~SkipsNextSave(skipNextSaveForDocument, Head(saveEvents).uri)
    /\ HasTag(editors[Head(saveEvents).uri].lines)
    /\ HandleStarted(Head(saveEvents),
                     HandlerStart(Head(saveEvents),
                                  Join(editors[Head(saveEvents).uri].lines, LF),
                                  TransformOf(Join(editors[Head(saveEvents).uri].lines, LF))))
    /\ UNCHANGED <<editors, skipNextSaveForDocument, edOps>>
    /\ UNCHANGED <<transformVars, gateVars, rewrite>>

\* The editor after the whole-document replace by newText.
Replaced(editor, newLines) ==
    [lines |-> newLines, cursor |-> Min({editor.cursor, Len(newLines) - 1}), dirty |-> TRUE]

\* vscode.workspace.applyEdit(edit) resolves, to true with the document
\* replaced or to false.
ApplyEdit ==
    /\ handler.pc = "applyEdit"
    /\ \E applied \in BOOLEAN :
           /\ handler' = [handler EXCEPT !.pc = "resume", !.applied = applied]
           /\ editors' = IF applied
                          THEN [editors EXCEPT ![handler.uri] =
                                   Replaced(@, SplitLines(handler.newText))]
                          ELSE editors
    /\ step' = [action |-> "applyEdit", uri |-> handler.uri]
    /\ UNCHANGED <<skipNextSaveForDocument, saveEvents, saveLog, shown, edOps>>
    /\ UNCHANGED <<transformVars, gateVars, rewrite>>

\* The handler goes on after processFileOnSave: it returns when didChange is
\* false, else adds the key and calls document.save().
Resume ==
    /\ handler.pc = "resume"
    /\ handler' = IF handler.applied THEN [handler EXCEPT !.pc = "save"] ELSE NoHandler
    /\ skipNextSaveForDocument' =
           IF handler.applied THEN skipNextSaveForDocument \cup {handler.uri}
           ELSE skipNextSaveForDocument
    /\ step' = [action |-> "resume", uri |-> handler.uri]
    /\ UNCHANGED <<editors, saveEvents, saveLog, shown, edOps>>
    /\ UNCHANGED <<transformVars, gateVars, rewrite>>

\* document.save() resolves: the dirty document was written and its save
\* event sent, or the save failed.
Persist ==
    /\ handler.pc = "save"
    /\ \E saved \in BOOLEAN :
           /\ editors' = IF saved THEN [editors EXCEPT ![handler.uri].dirty = FALSE]
                          ELSE editors
           /\ saveEvents' =
                  IF saved /\ editors[handler.uri].dirty
                  THEN Append(saveEvents,
                              [uri |-> handler.uri, cause |-> "persist", id |-> handler.id])
                  ELSE saveEvents
    /\ handler' = NoHandler
    /\ step' = [action |-> "persist", uri |-> handler.uri]
    /\ UNCHANGED <<skipNextSaveForDocument, saveLog, shown, edOps>>
    /\ UNCHANGED <<transformVars, gateVars, rewrite>>

NextEditors ==
    \/ UserSave
    \/ ToggleHere
    \/ ToggleAt
    \/ SkipSave
    \/ IgnoreSave
    \/ HandleSave
    \/ ApplyEdit
    \/ Resume
    \/ Persist

SpecEditors == InitEditors /\ [][NextEditors]_vars

SpecToggles == InitToggles /\ [][NextEditors]_vars

\* The user saves document u while a save is being handled: the handler
\* waits at one of its awaits, or a save event is still to be delivered.
SaveDuring ==
    \E u \in Uris :
        /\ ~Settled
        /\ edOps < MaxEditorOps
        /\ edOps' = edOps + 1
        /\ editors' = [editors EXCEPT ![u].dirty = FALSE]
        /\ saveEvents' = Append(saveEvents, [uri |-> u, cause |-> "user", id |-> edOps + 1])
        /\ step' = [action |-> "save", uri |-> u]
        /\ UNCHANGED <<skipNextSaveForDocument, handler, saveLog, shown>>
        /\ UNCHANGED <<transformVars, gateVars, rewrite>>

\* A save event is delivered while an earlier call of the handler waits at
\* an await: its key is in skipNextSaveForDocument, the entry is deleted.
SkipDuring ==
    /\ handler # NoHandler
    /\ saveEvents # << >>
    /\ SkipsNextSave(skipNextSaveForDocument, Head(saveEvents).uri)
    /\ skipNextSaveForDocument' = skipNextSaveForDocument \ {Head(saveEvents).uri}
    /\ saveEvents' = Tail(saveEvents)
    /\ saveLog' = Append(saveLog, SaveLogEntry(Head(saveEvents), "skip", ""))
    /\ step' = [action |-> "skip", uri |-> Head(saveEvents).uri]
    /\ UNCHANGED <<editors, handler, shown, edOps>>
    /\ UNCHANGED <<transformVars, gateVars, rewrite>>

\* The call of the handler for a save event delivered while an earlier call
\* waits, when it returns before any await of its own: the transform throws
\* or returns its input.
StartedDuring(e, started) ==
    /\ started.waiting = NoHandler
    /\ saveEvents' = Tail(saveEvents)
    /\ saveLog' = Append(saveLog, started.entry)
    /\ shown' = shown \o started.message
    /\ step' = [action |-> "transform", uri |-> e.uri]

HandleDuring ==
    /\ handler # NoHandler
    /\ saveEvents # << >>
    /\ ~SkipsNextSave(skipNextSaveForDocument, Head(saveEvents).uri)
    /\ HasTag(editors[Head(saveEvents).uri].lines)
    /\ StartedDuring(Head(saveEvents),
                     HandlerStart(Head(saveEvents),
                                  Join(editors[Head(saveEvents).uri].lines, LF),
                                  TransformOf(Join(editors[Head(saveEvents).uri].lines, LF))))
    /\ UNCHANGED <<editors, skipNextSaveForDocument, handler, edOps>>
    /\ UNCHANGED <<transformVars, gateVars, rewrite>>

NextInterleaved == NextEditors \/ SaveDuring \/ SkipDuring \/ HandleDuring

SpecInterleaved == InitEditors /\ [][NextInterleaved]_vars

----------------------------------------------------------------------------
(* The rewrites of one line: the loop body of the transform applied to a   *)
(* line that stays eligible, in debug mode and then in undebug mode        *)

\* Leading whitespace and what follows it; a line holds no line terminator.
RewriteIndents == {<< >>, <<" ">>, <<"\t", " ">>}

RewriteRests ==
    {L_STMT, Commented(L_STMT), L_NOTE, Commented(Commented(L_STMT)),
     <<"/">>, <<"/", "x">>, <<"/", " ", "/", "x">>, <<"x", " ">> \o SLASHES,
     SLASHES, SLASHES \o <<"/">>, <<"x", " ", " ">>, DEBUG_TAG \o <<"x">>}

InitRewrites ==
    /\ TransformClosed
    /\ GateClosed
    /\ EditorsClosed
    /\ \E indent \in RewriteIndents, rest \in RewriteRests :
           rewrite = [line |-> indent \o rest, now |-> indent \o rest,
                      debugs |-> 0, undebugs |-> 0]

\* A pass in debug mode: the line is in the window, unprotected, not blank.
DebugRewrite ==
    /\ rewrite.undebugs = 0
    /\ rewrite.debugs < MaxRewrites
    /\ ~SkipsLine(rewrite.now, FALSE)
    /\ rewrite' = [rewrite EXCEPT !.now = DebugLine(@), !.debugs = @ + 1]
    /\ UNCHANGED <<transformVars, gateVars, editorVars>>

\* A pass in undebug mode.
UndebugRewrite ==
    /\ rewrite.debugs >= 1
    /\ rewrite.undebugs < rewrite.debugs
    /\ ~SkipsLine(rewrite.now, FALSE)
    /\ rewrite' = [rewrite EXCEPT !.now = UndebugLine(@), !.undebugs = @ + 1]
    /\ UNCHANGED <<transformVars, gateVars, editorVars>>

NextRewrites == DebugRewrite \/ UndebugRewrite

SpecRewrites == InitRewrites /\ [][NextRewrites]_vars

----------------------------------------------------------------------------
(* What the claims speak about, read off the current call                  *)

\* The lines of the input, as the call split them.
InLines == call.lines

OutLines == SplitLines(out.text)

\* The lines (1-based indices) whose trimmed content is exactly the tag.
DebugMarkerLines == {i \in DOMAIN InLines : Trim(InLines[i]) = DEBUG_TAG}

UndebugMarkerLines == {i \in DOMAIN InLines : Trim(InLines[i]) = UNDEBUG_TAG}

Called == out.kind # "idle"

----------------------------------------------------------------------------
(* Marker Locator claims, checked under SpecMarkers                        *)

\* C1: a text with no line whose trimmed content is exactly //@debug or
\* exactly //@undebug is returned as it is, under every configuration.
C1_NoMarkerReturnsInput ==
    (Called /\ DebugMarkerLines = {} /\ UndebugMarkerLines = {})
        => out = Returned(text)

\* C1 witness: a text whose only marker-like line carries trailing content
\* has been transformed under a supplied configuration and came back.
C1_Witness ==
    /\ out.kind = "text"
    /\ DebugMarkerLines = {} /\ UndebugMarkerLines = {}
    /\ \E i \in DOMAIN InLines : InLines[i] = L_NEAR_DEBUG
    /\ \E i \in DOMAIN InLines : InLines[i] = L_STMT
    /\ config.hasPF

\* C2 as stated: whenever both kinds of marker line are present the error is
\* ConflictingMarkers.
C2_AsStated ==
    (Called /\ DebugMarkerLines # {} /\ UndebugMarkerLines # {})
        => out = Thrown("ConflictingMarkers")

\* C2 amended: with exactly one //@debug line and exactly one //@undebug line
\* the transform raises ConflictingMarkers and returns no text.
C2_OneOfEachConflicts ==
    (Called /\ Cardinality(DebugMarkerLines) = 1 /\ Cardinality(UndebugMarkerLines) = 1)
        => out = Thrown("ConflictingMarkers")

\* C2 witness: one marker of each kind, ConflictingMarkers raised.
C2_Witness ==
    /\ Cardinality(DebugMarkerLines) = 1
    /\ Cardinality(UndebugMarkerLines) = 1
    /\ out = Thrown("ConflictingMarkers")

\* C3: two or more marker lines of one kind raise MultipleMarkers for a kind
\* that occurs twice (the //@debug error when //@debug does, else the
\* //@undebug error), also when the other kind is present: multiplicity is
\* checked before the conflict.
C3_MultiplicityFirst ==
    Called =>
        /\ Cardinality(DebugMarkerLines) >= 2 => out = Thrown("MultipleDebug")
        /\ (Cardinality(UndebugMarkerLines) >= 2 /\ Cardinality(DebugMarkerLines) < 2)
               => out = Thrown("MultipleUndebug")

\* C3 witness: two //@debug lines and one //@undebug line, the multiple-debug
\* error raised.
C3_Witness ==
    /\ Cardinality(DebugMarkerLines) = 2
    /\ Cardinality(UndebugMarkerLines) = 1
    /\ out = Thrown("MultipleDebug")

----------------------------------------------------------------------------
(* The call that returned, for the scope and rewriting claims (under Spec) *)

\* The locals of the call that produced out.
An == call

OneMarker == Cardinality(DebugMarkerLines \cup UndebugMarkerLines) = 1

Mode == An.markerInfo.mode

\* 0-based index of the marker line.
MarkerLineNo == An.markerInfo.markerLine

\* The call returned after the scope resolver delivered a window.
Resolved ==
    /\ out.kind = "text"
    /\ OneMarker
    /\ ~An.ambiguous
    /\ An.processingStartLine # Undefined

\* Lower bound of the window the resolver handed to the rewriter (0-based).
ScopeStart == An.processingStartLine

IsBlank(line) == \A k \in DOMAIN line : IsSpace(line[k])

BeginsWithSlashes(line) ==
    LET n == LeadingSpaceCount(line)
    IN Len(line) >= n + 2 /\ line[n + 1] = "/" /\ line[n + 2] = "/"

\* Line i (0-based) is in the window, unprotected and not blank.
Eligible(i) ==
    /\ ScopeStart <= i /\ i < MarkerLineNo
    /\ i \notin An.protectedLines
    /\ ~IsBlank(InLines[i + 1])

EligibleLines == {i \in 0 .. (Len(InLines) - 1) : Eligible(i)}

\* The callback bodies of protected calls around the first character of the
\* marker line in the text that is parsed, nearest last.
EnclosingBodies ==
    candidateBlocks(An.sourceFile, LineStarts(An.parseText)[MarkerLineNo + 1],
                    An.protectedFunctions)

----------------------------------------------------------------------------
(* Whole-transform and rewriting claims, checked under Spec                *)

\* C4 as stated: a text with one //@debug marker in a resolvable scope is
\* transformed, the marker of the result is retagged //@undebug, the result
\* is transformed again: the final text is the first text with its marker
\* retagged, whatever the number and length of the commented lines.
C4_RoundTripAsStated ==
    (/\ pass = 2 /\ out.kind = "text"
     /\ hist[1].via = "retag"
     /\ LET first == Analysis(hist[1].input, config)
        IN ~first.ambiguous /\ first.processingStartLine # Undefined)
        => out.text = RetagText(hist[1].input)

\* C5: a line of the protected-line set has the same text in the output as in
\* the input, in both modes, wherever it lies.
C5_ProtectedLinesKept ==
    (out.kind = "text" /\ OneMarker) =>
        LET outLines == OutLines
        IN /\ Len(outLines) = Len(InLines)
           /\ \A i \in An.protectedLines :
                  (i + 1) \in DOMAIN InLines => outLines[i + 1] = InLines[i + 1]

\* C5 witness: a window that was rewritten and holds a protected header, a
\* closer, a declaration and a line protected by the textual pattern only.
C5_Witness ==
    /\ Resolved /\ out.text # text
    /\ \E h, c, v, r \in (An.protectedLines \cap (ScopeStart .. (MarkerLineNo - 1))) :
           /\ InLines[h + 1] = L_OPEN
           /\ InLines[c + 1] = L_CLOSE
           /\ InLines[v + 1] = L_VAR
           /\ InLines[r + 1] = Commented(L_OPEN)

\* C6: only lines with index in [scopeStart, markerLine) change: the marker
\* line, the lines after it, the lines before the scope start and the blank
\* lines keep their text, and the number of lines is unchanged.
C6_OnlyWindowLinesChange ==
    out.kind = "text" =>
        LET outLines == OutLines
            resolved == Resolved
        IN /\ Len(outLines) = Len(InLines)
           /\ \A i \in DOMAIN InLines :
                  (\/ ~resolved
                   \/ i - 1 < ScopeStart
                   \/ i - 1 >= MarkerLineNo
                   \/ IsBlank(InLines[i]))
                      => outLines[i] = InLines[i]

\* C6 witness: a rewritten window with a whitespace-only line in it, a
\* statement before the scope start and a statement after the marker.
C6_Witness ==
    /\ Resolved /\ out.text # text
    /\ \E i \in DOMAIN InLines :
           i - 1 < ScopeStart /\ InLines[i] = L_STMT
    /\ \E i \in DOMAIN InLines :
           i - 1 > MarkerLineNo /\ InLines[i] = L_STMT
    /\ \E i \in DOMAIN InLines :
           /\ ScopeStart <= i - 1 /\ i - 1 < MarkerLineNo
           /\ InLines[i] = Indented(L_BLANK)

\* C7: in debug mode every eligible line becomes its leading whitespace,
\* then two slashes, then the rest of the line, nothing else added, also
\* when the rest already begins with slashes.
C7_DebugLineRule ==
    (Resolved /\ Mode = "debug") =>
        \A i \in EligibleLines :
            LET a == InLines[i + 1]
                b == SplitLines(out.text)[i + 1]
                n == LeadingSpaceCount(a)
            IN /\ Len(b) = Len(a) + 2
               /\ \A k \in 1 .. n : b[k] = a[k]
               /\ b[n + 1] = "/" /\ b[n + 2] = "/"
               /\ \A k \in (n + 1) .. Len(a) : b[k + 2] = a[k]

\* C7 witness: an indented line that began with // came out with four
\* slashes, and a plain statement came out with two.
C7_Witness ==
    /\ Resolved /\ Mode = "debug"
    /\ \E i, j \in EligibleLines :
           /\ InLines[i + 1] = L_STMT_COMMENTED
           /\ OutLines[i + 1] = Indented(Commented(Commented(L_STMT)))
           /\ InLines[j + 1] = L_STMT
           /\ OutLines[j + 1] = Commented(L_STMT)

\* C8: in undebug mode an eligible line that begins, after its leading
\* whitespace, with // loses those two slashes and nothing else; an
\* eligible line that does not is left as it is.
C8_UndebugLineRule ==
    (Resolved /\ Mode = "undebug") =>
        \A i \in EligibleLines :
            LET a == InLines[i + 1]
                b == SplitLines(out.text)[i + 1]
                n == LeadingSpaceCount(a)
            IN IF BeginsWithSlashes(a)
               THEN /\ Len(b) = Len(a) - 2
                    /\ \A k \in 1 .. n : b[k] = a[k]
                    /\ \A k \in (n + 3) .. Len(a) : b[k - 2] = a[k]
               ELSE b = a

\* C8 witness: ////x() came out as //x(), a comment with a space kept the
\* space, an indented commented line kept its indentation, and a plain
\* statement was left alone.
C8_Witness ==
    /\ Resolved /\ Mode = "undebug"
    /\ \E i, j, k, l \in EligibleLines :
           /\ InLines[i + 1] = Commented(Commented(L_STMT))
           /\ OutLines[i + 1] = Commented(L_STMT)
           /\ InLines[j + 1] = L_NOTE
           /\ OutLines[j + 1] = <<" ">> \o L_STMT
           /\ InLines[k + 1] = L_STMT_COMMENTED
           /\ OutLines[k + 1] = Indented(L_STMT)
           /\ InLines[l + 1] = L_STMT
           /\ OutLines[l + 1] = L_STMT

\* C9: in undebug mode, when no eligible line of the window begins with //,
\* the text returned equals the input; so undebug applied to the restored
\* output of an undebug pass changes nothing.
C9_UndebugBoundary ==
    (/\ Resolved /\ Mode = "undebug"
     /\ \A i \in EligibleLines : ~BeginsWithSlashes(InLines[i + 1]))
        => out.text = text

\* C9 witness: an undebug pass stripped its window, its output was
\* transformed again with no commented eligible line left, and came back
\* the same, CR LF terminators included.
C9_Witness ==
    /\ pass = 2 /\ hist[1].via = "feed"
    /\ hist[1].output # hist[1].input
    /\ Resolved /\ Mode = "undebug"
    /\ EligibleLines # {}
    /\ \A i \in EligibleLines : ~BeginsWithSlashes(InLines[i + 1])
    /\ IncludesCRLF(text)
    /\ out.text = text

\* C10 as stated: no line before the opening line of the nearest protected
\* callback body around the marker is modified.
C10_NothingBeforeNearestBodyAsStated ==
    (out.kind = "text" /\ OneMarker /\ EnclosingBodies # {}) =>
        LET outLines == OutLines
            opening == NearestBlock(EnclosingBodies).bodyStartLine
        IN /\ Len(outLines) = Len(InLines)
           /\ \A i \in DOMAIN InLines :
                  i - 1 < opening => outLines[i] = InLines[i]

\* The protected calls with a callback body that lie in the body of d and end
\* before the call t begins.
EarlierSiblings(d, t) ==
    {s \in getProtectedCallInfos(An.sourceFile, An.protectedFunctions) :
        /\ s.hasBody
        /\ d.bodyStartLine < s.startLine
        /\ s.endLine < t.startLine}

\* C11 as stated: in debug mode, the marker in the body of a test() call in a
\* describe() body, every unprotected non-blank line in the bodies of the
\* before(), beforeEach() and it() calls that precede the test() in that
\* describe body gains the // prefix, as the test body lines before the
\* marker do.
C11_EarlierHookBodiesCommentedAsStated ==
    (Resolved /\ Mode = "debug" /\ Cardinality(EnclosingBodies) = 2) =>
        LET outLines == OutLines
            t == NearestBlock(EnclosingBodies)
            d == NearestBlockOutermost(EnclosingBodies)
        IN (t.name = NAME_TEST /\ d.name = NAME_DESCRIBE) =>
               /\ \A i \in EligibleLines : outLines[i + 1] = DebugLine(InLines[i + 1])
               /\ \A s \in EarlierSiblings(d, t) :
                      s.name \in HOOK_NAMES =>
                          \A i \in (s.bodyStartLine + 1) .. (s.bodyEndLine - 1) :
                              (i \notin An.protectedLines /\ ~IsBlank(InLines[i + 1]))
                                  => outLines[i + 1] = DebugLine(InLines[i + 1])

\* The callback bodies of protected calls that hold the marker line, by the
\* lines of the tree: opened above the marker line and closed below it.
ProtectedBodiesAroundMarker ==
    {c \in An.sourceFile.calls :
        /\ c.hasBody
        /\ c.name \in An.protectedFunctions
        /\ c.bodyStartLine < MarkerLineNo
        /\ MarkerLineNo < c.bodyEndLine}

\* C12: a marker that lies in no callback body of a call whose callee is a
\* bare identifier of the protected set (at top level, in a callback of
\* another name only, in the callback of a member call only) makes the
\* transform return its input, and nothing is thrown.
C12_OutsideProtectedBodyUnchanged ==
    (Called /\ OneMarker) =>
        (ProtectedBodiesAroundMarker = {} => out = Returned(text))

\* C12 witness: the marker after a statement in the callback of
\* describe.only(...) and nothing around it; the text came back.
C12_Witness ==
    /\ Called /\ OneMarker
    /\ ProtectedBodiesAroundMarker = {}
    /\ InLines[1] = L_DESCRIBE_ONLY
    /\ InLines[2] = L_STMT
    /\ MarkerLineNo >= 2
    /\ \E c \in An.sourceFile.calls :
           c.name = NoName /\ c.bodyStartLine = 0 /\ MarkerLineNo < c.bodyEndLine
    /\ out = Returned(text)

\* Line c (0-based) is the commented-out closer of the before() call b, ahead
\* of the test() call t: b's body is still open where t begins.
CommentedCloserBetween(b, c, t) ==
    /\ b.name = NAME_BEFORE /\ b.hasBody
    /\ t.name = NAME_TEST /\ t.hasBody
    /\ Trim(InLines[c + 1]) = Commented(L_CLOSE)
    /\ b.bodyStartLine < c /\ c < t.startLine
    /\ t.endLine <= b.bodyEndLine

\* C13 as stated: whenever the closing line of a before() block was itself
\* commented out (//}) ahead of a test() block that holds //@debug, the
\* transform returns its input unchanged.
C13_CommentedCloserUnchangedAsStated ==
    (Called /\ OneMarker /\ Mode = "debug") =>
        LET calls == getProtectedCallInfos(An.sourceFile, An.protectedFunctions)
        IN (\E b \in calls, t \in calls, c \in 0 .. (MarkerLineNo - 1) :
               /\ CommentedCloserBetween(b, c, t)
               /\ t.bodyStartLine < MarkerLineNo /\ MarkerLineNo < t.bodyEndLine)
               => out = Returned(text)

\* The variable statements that lie on one line of the window.
WindowVars ==
    {v \in An.sourceFile.vars :
        /\ v.startLine = v.endLine
        /\ ScopeStart <= v.endLine /\ v.endLine < MarkerLineNo}

\* normalizedConfig.functionAllowlist as the set the classifier is given.
Allowlist == Range(normalizeConfig(config).functionAllowlist)

\* The lines of the calls of protected functions (headers, closers, calls
\* without a callback body).
ProtectedCallLines ==
    UNION {CallProtectedLines(c) :
              c \in getProtectedCallInfos(An.sourceFile, An.protectedFunctions)}

AllAllowlistedCalls(v, allowlist) ==
    \A k \in DOMAIN v.inits :
        v.inits[k].name # NoName /\ v.inits[k].name \in allowlist

\* Some initializer of v is a call of a name outside the allowlist.
SomeOtherCall(v, allowlist) ==
    \E k \in DOMAIN v.inits :
        v.inits[k].name # NoName /\ v.inits[k].name \notin allowlist

SuppliedNames(values) == {Trim(values[k]) : k \in DOMAIN values} \ {<< >>}

\* The protected names in force under the configuration of the call.
ExpectedProtected ==
    IF config.hasPF
    THEN SuppliedNames(config.protectedFunctions)
    ELSE {NAME_DESCRIBE, NAME_BEFORE, NAME_BEFORE_EACH, NAME_TEST, NAME_IT,
          <<"a", "f", "t", "e", "r">>,
          <<"a", "f", "t", "e", "r", "E", "a", "c", "h">>,
          <<"s", "t", "e", "p">>}

ExpectedAllowlist ==
    IF config.hasAL THEN SuppliedNames(config.functionAllowlist) ELSE {}

\* The openers (0-based lines) of callbacks of bare names outside `names'.
OpenersOutside(names) ==
    {c.startLine : c \in {d \in An.sourceFile.calls :
                             d.hasBody /\ d.name # NoName /\ d.name \notin names}}

\* C16: a supplied protectedFunctions replaces the default set for scope
\* detection, header/closer protection and the textual pattern; default
\* names that were not supplied define no scope and protect no line; an
\* absent protectedFunctions or functionAllowlist means the eight default
\* names and the empty allowlist.
C16_ConfiguredNames ==
    (Called /\ OneMarker) =>
        LET names == ExpectedProtected
            outLines == OutLines
        IN /\ An.protectedFunctions = names
           /\ Allowlist = ExpectedAllowlist
           /\ \A c \in An.sourceFile.calls :
                  (c.name \in names) => CallProtectedLines(c) \subseteq An.protectedLines
           /\ \A i \in DOMAIN InLines :
                  (\E n \in names : StartsWith(InLines[i], n \o <<"(">>))
                      => (i - 1) \in An.protectedLines
           /\ Resolved =>
                  \E c \in An.sourceFile.calls :
                      c.hasBody /\ c.name \in names /\ ScopeStart = c.bodyStartLine + 1
           /\ (Resolved /\ Mode = "debug") =>
                  \A i \in OpenersOutside(names) :
                      (ScopeStart <= i /\ i < MarkerLineNo)
                          => outLines[i + 1] = DebugLine(InLines[i + 1])

\* C16 witness: protectedFunctions supplied as f; the marker in the callback
\* of f was processed and the it(...) opener inside it was commented like
\* any statement.
C16_Witness ==
    /\ Resolved /\ Mode = "debug"
    /\ config.hasPF /\ An.protectedFunctions = {<<"f">>}
    /\ InLines[1] = L_OPEN_F /\ OutLines[1] = L_OPEN_F
    /\ InLines[2] = L_OPEN /\ OutLines[2] = Commented(L_OPEN)
    /\ InLines[4] = L_CLOSE /\ OutLines[4] = Commented(L_CLOSE)

\* The mode of a document with one marker line and no other: "debug",
\* "undebug", or "" for any other document.
GateModeOf(lines) ==
    IF Cardinality(GateTagLines(lines, GATE_DEBUG_TAG)) = 1
       /\ GateTagLines(lines, GATE_UNDEBUG_TAG) = {}
    THEN "debug"
    ELSE IF Cardinality(GateTagLines(lines, GATE_UNDEBUG_TAG)) = 1
            /\ GateTagLines(lines, GATE_DEBUG_TAG) = {}
    THEN "undebug"
    ELSE ""

\* This step is a save or a process command of document u.
GateOperationOn(u) ==
    ops' # ops /\ seen'.uri = u /\ seen'.handler \in {"save", "command"}

GateAlternates ==
    \A u \in Uris : \A k \in 1 .. (Len(log[u]) - 1) : log[u][k] # log[u][k + 1]

\* An operation is processed only against a record of another mode.
GateProcessedAgainstRecord ==
    \A u \in Uris :
        log'[u] # log[u] =>
            /\ log'[u] = Append(log[u], GateModeOf(docs[u]))
            /\ lastOperationMap[u] # GateModeOf(docs[u])

\* An operation of the recorded mode is rejected with an error message.
GateSameModeRejected ==
    \A u \in Uris :
        (GateOperationOn(u) /\ GateModeOf(docs[u]) # ""
            /\ lastOperationMap[u] = GateModeOf(docs[u]))
        => (seen'.outcome = "rejected" /\ seen'.message # "" /\ log'[u] = log[u])

GateRejectionChangesNothing ==
    (ops' # ops /\ seen'.outcome = "rejected")
        => (docs' = docs /\ lastOperationMap' = lastOperationMap /\ log' = log)

\* An operation on a document writes the record and the text of no other.
GateOthersNotWritten ==
    \A u \in Uris :
        (ops' # ops /\ seen'.uri # u)
            => (lastOperationMap'[u] = lastOperationMap[u] /\ docs'[u] = docs[u])

\* Whether an operation is rejected depends on the document's own record
\* only.
GateOwnRecordDecides ==
    \A u \in Uris :
        (GateOperationOn(u) /\ GateModeOf(docs[u]) # "")
            => (seen'.outcome = "rejected" <=> lastOperationMap[u] = GateModeOf(docs[u]))

\* C18: a rejection of a same-mode operation happens before the transformer
\* is invoked and leaves the document text and the document's last-operation
\* record unchanged; an operation on one document neither reads nor writes
\* the record of another.
C18_RejectionLeavesAllUnchanged ==
    [][GateRejectionChangesNothing /\ GateOthersNotWritten /\ GateOwnRecordDecides]_vars

\* An operation was rejected while another document's record held the other
\* mode.
C18_Witness ==
    /\ seen.outcome = "rejected"
    /\ \E v \in Uris \ {seen.uri} :
           lastOperationMap[v] \notin {"none", lastOperationMap[seen.uri]}

\* The handler waiting for applyEdit holds the transform of the document,
\* which differs from it; the handler about to save has replaced the whole
\* document by it.
SaveReplacesWholeDocument ==
    /\ handler.pc = "applyEdit" =>
           /\ handler.newText = TransformOf(Join(editors[handler.uri].lines, LF)).text
           /\ handler.newText # Join(editors[handler.uri].lines, LF)
    /\ handler.pc = "save" =>
           /\ handler.applied
           /\ editors[handler.uri].lines = SplitLines(handler.newText)

\* The save event of the handler's own save is skipped.
SaveNotReentered ==
    \A k \in DOMAIN saveLog : saveLog[k].cause = "persist" => saveLog[k].did = "skip"

\* The transformer ran at most once for each save of the user.
SaveTransformsOnce ==
    \A k, j \in DOMAIN saveLog :
        (saveLog[k].id = saveLog[j].id /\ saveLog[k].did = "transform"
            /\ saveLog[j].did = "transform") => k = j

\* document.save() is called after an applied replace only, and a replace
\* that was not applied leaves the document as it was.
SavePersistsOnlyApplied ==
    /\ step'.action = "persist" /\ step' # step => handler.applied
    /\ (handler.pc = "applyEdit" /\ handler'.pc = "resume" /\ ~handler'.applied)
           => editors' = editors
    /\ (handler.pc = "resume" /\ ~handler.applied) => handler' \in {handler, NoHandler}

ToggleAsStated(lines, n) ==
    IF Trim(lines[n + 1]) = DEBUG_TAG
    THEN [lines EXCEPT ![n + 1] =
             SubSeq(lines[n + 1], 1, LeadingSpaceCount(lines[n + 1])) \o UNDEBUG_TAG]
    ELSE IF Trim(lines[n + 1]) = UNDEBUG_TAG
    THEN [k \in 1 .. (Len(lines) - 1) |-> IF k <= n THEN lines[k] ELSE lines[k + 1]]
    ELSE IF Trim(lines[n + 1]) = << >>
    THEN [lines EXCEPT ![n + 1] =
             SubSeq(lines[n + 1], 1, LeadingSpaceCount(lines[n + 1])) \o DEBUG_TAG]
    ELSE [k \in 1 .. (Len(lines) + 1) |->
             IF k <= n THEN lines[k]
             ELSE IF k = n + 1
             THEN SubSeq(lines[n + 1], 1, LeadingSpaceCount(lines[n + 1])) \o DEBUG_TAG
             ELSE lines[k - 1]]

\* This step is the toggle command in the editor of u, the cursor where the
\* command before left it.
ToggledHere(u) == edOps' # edOps /\ step'.action = "toggle" /\ step'.uri = u

\* The toggle command saves nothing and runs no transform.
ToggleRunsNoTransform ==
    /\ saveLog' = saveLog
    /\ saveEvents' = saveEvents
    /\ handler' = handler
    /\ skipNextSaveForDocument' = skipNextSaveForDocument

\* C20: the toggle command, run again and again with the cursor left where
\* it puts it, inserts a //@debug line for a line that is no marker (above a
\* non-empty line with its indentation, in place of an empty one), replaces a
\* //@debug line in place by //@undebug with the same indentation, and
\* deletes an //@undebug line; it changes no other line and never invokes the
\* transformer.
C20_ToggleCyclesAsStated ==
    [][\A u \in Uris :
          ToggledHere(u) =>
              /\ editors'[u].lines = ToggleAsStated(editors[u].lines, editors[u].cursor)
              /\ \A v \in Uris \ {u} : editors'[v] = editors[v]
              /\ ToggleRunsNoTransform]_vars

\* More than one marker of a kind, or markers of both kinds.
BadMarkers(lines) ==
    \/ Cardinality(TagLines(lines, DEBUG_TAG)) > 1
    \/ Cardinality(TagLines(lines, UNDEBUG_TAG)) > 1
    \/ (TagLines(lines, DEBUG_TAG) # {} /\ TagLines(lines, UNDEBUG_TAG) # {})

\* This step is the handler running the transform on the document of u.
TransformRunOn(u) ==
    /\ Len(saveLog') = Len(saveLog) + 1
    /\ saveLog'[Len(saveLog')].did = "transform"
    /\ saveLog'[Len(saveLog')].uri = u

\* C21: when the transform throws for more than one marker of a kind or for
\* markers of both kinds while a save is processed, no edit is applied: the
\* document is unchanged, no save of the handler follows, no entry is added to
\* skipNextSaveForDocument, and the error is shown to the user.
C21_MarkerErrorEditsNothing ==
    [][\A u \in Uris :
          (TransformRunOn(u) /\ BadMarkers(editors[u].lines)) =>
              /\ editors' = editors
              /\ handler' = NoHandler
              /\ skipNextSaveForDocument' = skipNextSaveForDocument
              /\ saveEvents' = Tail(saveEvents)
              /\ Len(shown') = Len(shown) + 1
              /\ shown'[Len(shown')] \in {"MultipleDebug", "MultipleUndebug",
                                          "ConflictingMarkers"}]_vars

\* The transform threw on a save and the message was shown.
C21_Witness ==
    /\ saveLog # << >>
    /\ saveLog[Len(saveLog)].error # ""
    /\ BadMarkers(editors[saveLog[Len(saveLog)].uri].lines)
    /\ shown # << >>

\* The number of slash characters at the head of s.
LeadingSlashes(s) ==
    IF \E i \in DOMAIN s : s[i] # "/"
    THEN Min({i \in DOMAIN s : s[i] # "/"}) - 1
    ELSE Len(s)

\* C22: debug mode is not idempotent and is exactly reversible: n debug
\* rewrites of an eligible non-blank line add exactly 2n slash characters
\* after the leading whitespace, n undebug rewrites of the result restore the
\* line exactly, and fewer than n never do.
C22_DebugReversible ==
    /\ LeadingSpaceCount(rewrite.now) = LeadingSpaceCount(rewrite.line)
    /\ SubSeq(rewrite.now, 1, LeadingSpaceCount(rewrite.now))
           = SubSeq(rewrite.line, 1, LeadingSpaceCount(rewrite.line))
    /\ LeadingSlashes(SkipSpaces(rewrite.now))
           = LeadingSlashes(SkipSpaces(rewrite.line)) + 2 * (rewrite.debugs - rewrite.undebugs)
    /\ Len(rewrite.now) = Len(rewrite.line) + 2 * (rewrite.debugs - rewrite.undebugs)
    /\ Drop(rewrite.now, Len(rewrite.now) - Len(rewrite.line) + LeadingSpaceCount(rewrite.line))
           = SkipSpaces(rewrite.line)
    /\ (rewrite.undebugs = rewrite.debugs) => rewrite.now = rewrite.line
    /\ (rewrite.undebugs < rewrite.debugs) => rewrite.now # rewrite.line

\* Three debug rewrites of a line that began with slashes were undone by
\* three undebug rewrites.
C22_Witness ==
    /\ rewrite.debugs = MaxRewrites
    /\ rewrite.undebugs = rewrite.debugs
    /\ StartsWith(SkipSpaces(rewrite.line), SLASHES)
    /\ LeadingSpaceCount(rewrite.line) > 0

----------------------------------------------------------------------------
(* Two ranges of a protected call                                          *)

\* The call of the analysed text, once it has one marker.
Analysed == call # NoCall /\ call.markerInfo.kind = "marker"

LineNumbers == 0..(Len(call.lines) - 1)

ProtectedCallsOfCall == getProtectedCallInfos(call.sourceFile, call.protectedFunctions)

StructuralLinesOfCall ==
    getProtectedLines(call.sourceFile, call.protectedFunctions,
                      Range(normalizeConfig(config).functionAllowlist))

\* From the call's start line through the body's opening line, and from the
\* body's closing line through the call's end line.
TwoRanges(c) ==
    {i \in LineNumbers : \/ c.startLine <= i /\ i <= c.bodyStartLine
                         \/ c.bodyEndLine <= i /\ i <= c.endLine}

WholeSpan(c) == {i \in LineNumbers : c.startLine <= i /\ i <= c.endLine}

Interior(c) == {i \in LineNumbers : c.bodyStartLine < i /\ i < c.bodyEndLine}

StatedLines(c) == IF c.hasBody THEN TwoRanges(c) ELSE WholeSpan(c)

\* The lines of the protected declarations.
DeclarationLines ==
    StructuralLinesOfCall \ UNION {CallProtectedLines(c) : c \in ProtectedCallsOfCall}

\* Line i is protected by the structural pass on account of call c only if
\* it is one of the stated lines of c.
StructuralPassAsStated ==
    \A c \in ProtectedCallsOfCall :
        /\ StatedLines(c) \subseteq StructuralLinesOfCall
        /\ \A i \in Interior(c) :
               i \in StructuralLinesOfCall =>
                   \/ i \in DeclarationLines
                   \/ \E d \in ProtectedCallsOfCall \ {c} : i \in StatedLines(d)

Rewrote == Analysed /\ out.kind = "text" /\ ~call.ambiguous
           /\ call.processingStartLine # Undefined

OutLine(i) == SplitLines(out.text)[i + 1]

\* An interior line of the window that no other rule protects and that is
\* not blank is rewritten: commented out, or stripped of its first //.
InteriorRewritten ==
    \A c \in ProtectedCallsOfCall : \A i \in Interior(c) :
        (/\ c.hasBody
         /\ InWindow(i, call.processingStartLine, call.markerInfo.markerLine)
         /\ i \notin call.protectedLines
         /\ Len(Trim(call.lines[i + 1])) > 0)
        => OutLine(i) = IF call.markerInfo.mode = "debug"
                        THEN DebugLine(call.lines[i + 1])
                        ELSE UndebugLine(call.lines[i + 1])

\* C23: the structural pass protects, for a protected call with a block
\* body, the lines from its start line through the body's opening line and
\* from the body's closing line through its end line, and not the lines
\* strictly between on account of that call; those lines are rewritten
\* when they lie in the window; a protected call without a block body has
\* its whole span protected.
C23_TwoRangeProtection ==
    /\ Analysed => StructuralPassAsStated
    /\ Rewrote => InteriorRewritten

\* A debug pass over a text where a call with a multiline signature, two
\* callbacks deep and closed before the marker, had its interior commented
\* out and its signature and closure lines kept, next to a multiline call
\* without callback whose argument line was kept.
C23_Witness ==
    /\ Rewrote
    /\ call.markerInfo.mode = "debug"
    /\ \E c \in ProtectedCallsOfCall :
           /\ c.hasBody
           /\ c.startLine < c.bodyStartLine
           /\ c.bodyEndLine < c.endLine
           /\ c.endLine < call.markerInfo.markerLine
           /\ c.startLine > call.processingStartLine
           /\ \E i \in Interior(c) :
                  /\ i \notin StructuralLinesOfCall
                  /\ OutLine(i) = DebugLine(call.lines[i + 1])
                  /\ OutLine(i) # call.lines[i + 1]
           /\ \A i \in TwoRanges(c) : OutLine(i) = call.lines[i + 1]
    /\ \E c \in ProtectedCallsOfCall :
           /\ ~c.hasBody
           /\ c.startLine + 2 = c.endLine
           /\ Len(Trim(call.lines[c.startLine + 2])) > 0
           /\ InWindow(c.startLine + 1, call.processingStartLine,
                       call.markerInfo.markerLine)
           /\ \A i \in WholeSpan(c) : OutLine(i) = call.lines[i + 1]

----------------------------------------------------------------------------
(* The ambiguity guard                                                     *)

MarkerLineOfCall == call.markerInfo.markerLine

\* The lines above the marker that match the protected-call pattern.
PatternLinesAbove ==
    {i \in LineNumbers :
        /\ i < MarkerLineOfCall
        /\ PatternTest(normalizeConfig(config).protectedFunctions, call.lines[i + 1])}

NearestPatternLine ==
    CHOOSE n \in PatternLinesAbove : \A i \in PatternLinesAbove : i <= n

CallsStartingAt(n) == {c \in ProtectedCallsOfCall : c.startLine = n}

\* The verdict as stated, for the nearest pattern line n: TRUE is proceed.
StatedVerdictAt(n) ==
    IF CallsStartingAt(n) = {} THEN FALSE
    ELSE \E c \in CallsStartingAt(n) :
            \/ c.endLine < MarkerLineOfCall
            \/ /\ c.hasBody
               /\ c.bodyStartLine < MarkerLineOfCall
               /\ MarkerLineOfCall < c.bodyEndLine

StatedVerdict ==
    IF PatternLinesAbove = {} THEN TRUE ELSE StatedVerdictAt(NearestPatternLine)

\* C24: the guard decides at the nearest line above the marker that matches
\* the protected-call pattern: without such a line the transform proceeds;
\* without a detected call starting on it the text comes back unchanged; a
\* call ending before the marker lets it proceed; otherwise it proceeds only
\* with the marker strictly between the call's body start and body end
\* lines.
C24_GuardDecidesAtNearestPatternLine ==
    Analysed =>
        /\ call.ambiguous = ~StatedVerdict
        /\ (call.ambiguous /\ out.kind # "idle") => out = Returned(text)

\* The marker among the arguments of a call whose callback opens below it,
\* inside the body of an outer callback: the nearest pattern line is the
\* inner call's, the text came back unchanged.
C24_Witness ==
    /\ Analysed
    /\ out = Returned(text)
    /\ call.ambiguous
    /\ Cardinality(PatternLinesAbove) >= 2
    /\ \E c \in CallsStartingAt(NearestPatternLine) :
           /\ c.hasBody
           /\ c.endLine > MarkerLineOfCall
           /\ c.startLine < MarkerLineOfCall
           /\ MarkerLineOfCall < c.bodyStartLine
    /\ call.processingStartLine # Undefined

----------------------------------------------------------------------------
(* The marker's line and offset                                            *)

\* The character index in the text of the first character of line n.
IndexOfLine(n) == IF n = 0 THEN 0 ELSE NewlineIndices(text)[n]

\* The lines of the text whose trimmed content is a tag.
MarkerLinesOfText ==
    {n \in LineNumbers : Trim(call.lines[n + 1]) \in {DEBUG_TAG, UNDEBUG_TAG}}

C25_MarkerLineIsIndex ==
    Analysed => MarkerLinesOfText = {call.markerInfo.markerLine}

\* The offset is the index of the line whenever all lines before the marker
\* end with the terminator detected for the text.
UniformBeforeMarker ==
    \A n \in 1..call.markerInfo.markerLine :
        (text[NewlineIndices(text)[n] - 1] = "\r") <=> IncludesCRLF(text)

C25_OffsetOfUniformText ==
    (Analysed /\ UniformBeforeMarker)
        => call.markerInfo.markerOffset = IndexOfLine(call.markerInfo.markerLine)

----------------------------------------------------------------------------
(* The position of the marker in the parsed text                           *)

\* The offset at which the marker line starts in the text that is parsed.
MarkerStartInParseText == LineStarts(call.parseText)[MarkerLineOfCall + 1]

MarkerEndInParseText ==
    MarkerStartInParseText + Len(SplitLines(call.parseText)[MarkerLineOfCall + 1])

\* The start line of the nearest protected callback body that encloses the
\* marker line of the parsed text, Undefined without one.
ScopeOfMarkerLine ==
    StartLineOf(BlocksAt(call.sourceFile,
                         LookupPos(call.sourceFile, MarkerStartInParseText),
                         call.protectedFunctions))

\* C26: in undebug mode the position used for scope resolution lies on the
\* marker line of the parsed text, and the resolved scope is the nearest
\* protected callback body enclosing that line, however many lines before
\* the marker are commented and whatever the line terminator.
C26_UndebugScopeAsStated ==
    (Analysed /\ call.markerInfo.mode = "undebug") =>
        /\ MarkerStartInParseText <= call.markerInfo.markerOffset
        /\ call.markerInfo.markerOffset <= MarkerEndInParseText
        /\ call.processingStartLine = ScopeOfMarkerLine

\* In debug mode the parsed text is the text and the scope is the marker
\* line's, for texts with one kind of terminator.
C26_DebugScopeOfMarkerLine ==
    (Analysed /\ call.markerInfo.mode = "debug") =>
        call.processingStartLine = ScopeOfMarkerLine

----------------------------------------------------------------------------
(* Line terminators                                                        *)

\* The terminator after each line of t but the last.
TerminatorAt(t, nl) == IF nl > 1 /\ t[nl - 1] = "\r" THEN CRLF ELSE LF

TerminatorsOf(t) ==
    [k \in 1..Len(NewlineIndices(t)) |-> TerminatorAt(t, NewlineIndices(t)[k])]

NoLineRewritten == SplitLines(out.text) = SplitLines(text)

OneTerminator(t) == \A k \in DOMAIN TerminatorsOf(t) : TerminatorsOf(t)[k] = DetectEol(t)

C27_UniformTerminatorsPreserved ==
    (out.kind = "text" /\ OneTerminator(text)) =>
        /\ TerminatorsOf(out.text) = TerminatorsOf(text)
        /\ NoLineRewritten => out.text = text

----------------------------------------------------------------------------
(* The record of the gate and the edits                                    *)

\* C28: the record of a document is set to a mode only by an operation that
\* produced at least one edit of that mode; an operation that yields no edit
\* leaves the record unchanged and so rejects no later operation.
C28_RecordSetOnlyByEditsAsStated ==
    [][\A u \in Uris :
           lastOperationMap'[u] # lastOperationMap[u] => docs'[u] # docs[u]]_vars

\* What the gate does: every operation it lets through sets the record to
\* the operation's mode, with or without an edit.
C28_RecordSetByEveryProcessedOperation ==
    [][\A u \in Uris :
           (GateOperationOn(u) /\ seen'.outcome = "processed")
               => lastOperationMap'[u] = seen'.mode]_vars

----------------------------------------------------------------------------
(* Marker lines after toggle commands                                      *)

MarkerLinesOf(lines) == TagLines(lines, DEBUG_TAG) \cup TagLines(lines, UNDEBUG_TAG)

\* No save met more than one marker of a kind or markers of both kinds.
NoMarkerErrorRaised ==
    \A k \in DOMAIN saveLog :
        saveLog[k].error \notin {"MultipleDebug", "MultipleUndebug", "ConflictingMarkers"}

\* C29: starting from documents without a marker line, after any sequence
\* of toggle commands at arbitrary cursor lines a document has at most one
\* marker line, and no save raises MultipleMarkers or ConflictingMarkers.
C29_AtMostOneMarkerAsStated ==
    /\ \A u \in Uris : Cardinality(MarkerLinesOf(editors[u].lines)) <= 1
    /\ NoMarkerErrorRaised

\* This step is the toggle command in the editor of u, the cursor on line n.
ToggledOn(u, n) ==
    /\ edOps' # edOps
    /\ step'.action \in {"toggle", "toggleAt"}
    /\ step'.uri = u
    /\ n \in 0..(Len(editors[u].lines) - 1)
    /\ editors'[u] = toggleDebugMarker(editors[u], n)

\* C29, amended: the toggle command looks at the cursor line only.  Run on a
\* line of a document whose only marker line, if it has one, is that line,
\* it leaves a document whose only marker line, if it has one, is the line
\* of the cursor; run on another line of a document with a marker line, it
\* adds a second marker line.
C29_ToggleOnTheMarkerKeepsOne ==
    [][\A u \in Uris : \A n \in 0..(Len(editors[u].lines) - 1) :
          ToggledOn(u, n) =>
              /\ MarkerLinesOf(editors[u].lines) \subseteq {n}
                    => MarkerLinesOf(editors'[u].lines) \subseteq {editors'[u].cursor}
              /\ (MarkerLinesOf(editors[u].lines) # {} /\ n \notin MarkerLinesOf(editors[u].lines))
                    => Cardinality(MarkerLinesOf(editors'[u].lines))
                           = Cardinality(MarkerLinesOf(editors[u].lines)) + 1]_vars

\* A document that started without a marker line was toggled to a //@debug
\* line and then to an //@undebug line under the cursor.
C29_Witness ==
    \E u \in Uris :
        /\ step = [action |-> "toggle", uri |-> u]
        /\ edOps >= 2
        /\ MarkerLinesOf(editors[u].lines) = {editors[u].cursor}
        /\ TagLines(editors[u].lines, UNDEBUG_TAG) = {editors[u].cursor}

----------------------------------------------------------------------------
(* The skip-next-save guard under interleavings                            *)

\* This step is the handler returning at its skip-next-save guard.
SkippedNow ==
    /\ Len(saveLog') = Len(saveLog) + 1
    /\ saveLog'[Len(saveLog')].did = "skip"

\* C30: no save of the user of a document with a marker is skipped by the
\* skip-next-save guard: the entry the handler adds before its own
\* document.save() is removed by the save event of that call, under every
\* interleaving of save events with the awaits of the handler, and when the
\* handler's own save fails or sends no save event.
C30_NoUserSaveSkippedAsStated ==
    [][SkippedNow =>
          ~(/\ saveLog'[Len(saveLog')].cause = "user"
            /\ HasTag(editors[saveLog'[Len(saveLog')].uri].lines))]_vars

====
